---------------------------- MODULE Spec2Model ----------------------------
(***************************************************************************)
(* A model of the Docker-archive to ACI conversion pipeline:               *)
(*   - the archive reader (getImageID, getAncestry, getParent),            *)
(*   - the per-layer ACI writer (writeACI, subtractWhiteouts,              *)
(*     writeStdioSymlinks),                                                *)
(*   - the squasher (writeSquashedImage, mergeManifests, stripLayerID),    *)
(*   - the conversion driver (convertRun, SquashLayers).                   *)
(*                                                                         *)
(* Paths are sequences of components.  An absolute path starts with the    *)
(* component "/": "/etc/b" is <<"/", "etc", "b">> and "/" is <<"/">>.      *)
(* The empty string is <<>>.  A tar header name such as "rootfs/etc/b" is  *)
(* <<"rootfs", "etc", "b">>.                                               *)
(***************************************************************************)
EXTENDS Integers, Sequences, FiniteSets, TLC

VARIABLES
    \* subtractWhiteouts applied as a function
    sw_pathWhitelist, sw_whiteouts, sw_result, sw_pc,
    \* writeACI: the layer payload, the walk's locals and the ACI written
    w_layer,        \* the number of layers built before this one
    w_validTar,     \* the layer payload opens as a (compressed) tar
    w_inherited,    \* the curPwl argument as passed by the caller
    w_curPwl,       \* the local curPwl
    w_fileMap,      \* fileMap
    w_whiteouts,    \* whiteouts
    w_tar,          \* the headers written to the ACI, in order
    w_walked,       \* the entries of the layer tar read so far
    w_manifestPwl,  \* manifest.PathWhitelist as written
    w_t,            \* the entry convWalker was last called with
    w_err,          \* the error writeACI returns
    w_pc,
    \* the saved Docker archive and GetImageInfo
    a_hasRepos,     \* the archive holds a repositories entry
    a_repos,        \* repositories: app name -> tag -> id
    a_json,         \* <id>/json of every id: missing, malformed, or its parent
    gi_imageID,     \* getImageID: imageID
    gi_appName,     \* getImageID: appName
    gi_err,         \* the error GetImageInfo returns
    gi_ancestry,    \* getAncestry: ancestry
    gi_curImgID,    \* getAncestry: curImgID
    gi_pc,
    \* writeSquashedImage
    sq_rendered,    \* renderedACI: per layer, the entries of its ACI and its FileMap
    sq_hardLinks,   \* hardLinks: layer -> cleanTarget -> hardLinkEntry
    sq_out,         \* the entries written to the squashed tar, in order
    sq_layer,       \* the layer the current pass is at
    sq_entry,       \* the entry of that layer the walk is at
    sq_pc,
    \* mergeManifests
    mm_manifests,   \* manifests, the topmost layer's first
    mm_result,      \* the manifest written into the squashed ACI
    mm_pc,
    \* convertRun and SquashLayers
    cv_outputDir,   \* outputDir: file name -> what the file holds
    cv_layersDir,   \* layersOutputDir: the per-layer ACIs in it, once created
    cv_appName,     \* appName
    cv_ancestry,    \* ancestry
    cv_i,           \* the loop index i of convertRun
    cv_images,      \* images
    cv_curPwl,      \* curPwl
    cv_manifest,    \* the manifest BuildACI returned for the layer at i
    cv_calls,       \* the calls of BuildACI and WriteACI made so far, in order
    cv_validated,   \* ValidateACI accepted the squashed temp file
    cv_err,         \* the step whose error convertRun returns
    cv_pc,
    \* getExecCommand applied as a function
    ex_entrypoint, ex_cmd, ex_exec, ex_pc,
    \* convertVolumesToMPs applied as a function
    vo_dockerVolumes,   \* the keys of dockerVolumes
    vo_order,           \* the order in which the range over the map visits them
    vo_mountPoints,     \* the mount points returned
    vo_pc,
    \* GenerateManifest
    gm_layerData, gm_appName, gm_manifest, gm_err, gm_pc,
    \* the first loop of subtractWhiteouts, one iteration at a time
    sl_idx,         \* the index of path in pathWhitelist (0 before the loop)
    sl_curPath,     \* curPath
    sl_matchPaths,  \* matchPaths
    \* the slices of convertRun and the arrays behind them
    al_arrays,      \* the backing arrays allocated so far, by number
    al_images,      \* images: the PathWhitelist slice of each manifest, and its
                    \* elements when the build of the layer returned
    al_curPwl,      \* curPwl
    al_pc

swVars == <<sw_pathWhitelist, sw_whiteouts, sw_result, sw_pc>>

wVars == <<w_layer, w_validTar, w_inherited, w_curPwl, w_fileMap, w_whiteouts, w_tar,
           w_walked, w_manifestPwl, w_t, w_err, w_pc>>

aVars == <<a_hasRepos, a_repos, a_json>>

giVars == <<gi_imageID, gi_appName, gi_err, gi_ancestry, gi_curImgID, gi_pc>>

sqVars == <<sq_rendered, sq_hardLinks, sq_out, sq_layer, sq_entry, sq_pc>>

mmVars == <<mm_manifests, mm_result, mm_pc>>

\* the locals of the loop of convertRun over the ancestry
cvLoopVars == <<cv_curPwl, cv_manifest, cv_calls>>

cvVars == <<cv_outputDir, cv_layersDir, cv_appName, cv_ancestry, cv_i, cv_images,
            cv_validated, cv_err, cv_pc, cvLoopVars>>

exVars == <<ex_entrypoint, ex_cmd, ex_exec, ex_pc>>

voVars == <<vo_dockerVolumes, vo_order, vo_mountPoints, vo_pc>>

gmVars == <<gm_layerData, gm_appName, gm_manifest, gm_err, gm_pc>>

\* the variables of the functions of manifest synthesis
synthVars == <<exVars, voVars, gmVars>>

slVars == <<sl_idx, sl_curPath, sl_matchPaths>>

alVars == <<al_arrays, al_images, al_curPwl, al_pc>>

\* the variables of the path whitelist seen as a loop and as memory
pwlVars == <<slVars, alVars>>

vars == <<swVars, wVars, aVars, giVars, sqVars, mmVars, cvVars, synthVars, pwlVars>>

\* what the actions of one component leave alone
NotSw == <<wVars, aVars, giVars, sqVars, mmVars, cvVars, synthVars, pwlVars>>
NotW == <<swVars, aVars, giVars, sqVars, mmVars, cvVars, synthVars, pwlVars>>
NotGi == <<swVars, wVars, aVars, sqVars, mmVars, cvVars, synthVars, pwlVars>>
NotSq == <<swVars, wVars, aVars, giVars, mmVars, cvVars, synthVars, pwlVars>>
NotMm == <<swVars, wVars, aVars, giVars, sqVars, cvVars, synthVars, pwlVars>>
NotEx == <<swVars, wVars, aVars, giVars, sqVars, mmVars, cvVars, voVars, gmVars, pwlVars>>
NotVo == <<swVars, wVars, aVars, giVars, sqVars, mmVars, cvVars, exVars, gmVars, pwlVars>>
NotGm == <<swVars, wVars, aVars, giVars, sqVars, mmVars, cvVars, exVars, voVars, pwlVars>>
NotCv == <<swVars, wVars, aVars, giVars, sqVars, mmVars, synthVars, pwlVars>>
\* writeACI with the loop of subtractWhiteouts
NotWSl == <<swVars, aVars, giVars, sqVars, mmVars, cvVars, synthVars, alVars>>
NotAl == <<swVars, wVars, aVars, giVars, sqVars, mmVars, cvVars, synthVars, slVars>>

----------------------------------------------------------------------------
(* Bounds of the model *)

\* longest path whitelist handed to subtractWhiteouts as a function
MaxPwl == 3
\* longest whiteout list handed to subtractWhiteouts as a function
MaxWhiteouts == 2
\* most entries of one layer tar
MaxEntries == 3
\* longest PWL inherited from the lower layer
MaxInherited == 2
\* the ancestry list is followed up to this length
MaxAncestry == 4
\* most file entries of all rendered layers together
MaxSquashEntries == 3
\* most labels of one manifest handed to mergeManifests
MaxLabels == 3
\* most manifests of lower layers handed to mergeManifests
MaxLower == 1
\* longest ancestry convertRun converts
MaxConvLayers == 2
\* most layers of a chain built one on the other's pathWhitelist
MaxChain == 2
\* most elements of an entrypoint and of a cmd
MaxArgs == 2
\* most volumes of one image json
MaxVolumes == 3

----------------------------------------------------------------------------
(* Variables of the components a specification does not exercise *)

SwIdle ==
    /\ sw_pathWhitelist = <<>>
    /\ sw_whiteouts = <<>>
    /\ sw_result = <<>>
    /\ sw_pc = "idle"

\* convWalker was not called yet
NoEntry == [name |-> <<>>, typeflag |-> "", linkname |-> <<>>]

WIdle ==
    /\ w_layer = 0
    /\ w_t = NoEntry
    /\ w_err = "none"
    /\ w_validTar = FALSE
    /\ w_inherited = <<>>
    /\ w_curPwl = <<>>
    /\ w_fileMap = {}
    /\ w_whiteouts = <<>>
    /\ w_tar = <<>>
    /\ w_walked = 0
    /\ w_manifestPwl = <<>>
    /\ w_pc = "idle"

NoError == [kind |-> "none", names |-> <<>>]

GiIdle ==
    /\ a_hasRepos = FALSE
    /\ a_repos = <<>>
    /\ a_json = <<>>
    /\ gi_imageID = ""
    /\ gi_appName = ""
    /\ gi_err = NoError
    /\ gi_ancestry = <<>>
    /\ gi_curImgID = ""
    /\ gi_pc = "idle"

SqIdle ==
    /\ sq_rendered = <<>>
    /\ sq_hardLinks = <<>>
    /\ sq_out = <<>>
    /\ sq_layer = 0
    /\ sq_entry = 0
    /\ sq_pc = "idle"

NoManifest ==
    [name |-> <<>>, acVersion |-> "", acKind |-> "", labels |-> <<>>,
     annotations |-> <<>>, app |-> "", dependencies |-> <<>>,
     pathWhitelist |-> <<>>]

MmIdle ==
    /\ mm_manifests = <<>>
    /\ mm_result = NoManifest
    /\ mm_pc = "idle"

\* no layer was built yet
NoLayerManifest == [name |-> "", pathWhitelist |-> <<>>]

CvIdle ==
    /\ cv_outputDir = <<>>
    /\ cv_layersDir = "none"
    /\ cv_appName = <<>>
    /\ cv_ancestry = <<>>
    /\ cv_i = 0
    /\ cv_images = <<>>
    /\ cv_curPwl = <<>>
    /\ cv_manifest = NoLayerManifest
    /\ cv_calls = <<>>
    /\ cv_validated = FALSE
    /\ cv_err = "none"
    /\ cv_pc = "idle"

\* a Go slice: nil, or its elements
NilSlice == [isNil |-> TRUE, s |-> <<>>]
Slice(elems) == [isNil |-> FALSE, s |-> elems]

ExIdle ==
    /\ ex_entrypoint = NilSlice
    /\ ex_cmd = NilSlice
    /\ ex_exec = NilSlice
    /\ ex_pc = "idle"

VoIdle ==
    /\ vo_dockerVolumes = {}
    /\ vo_order = <<>>
    /\ vo_mountPoints = <<>>
    /\ vo_pc = "idle"

GmIdle ==
    /\ gm_layerData = "none"
    /\ gm_appName = <<>>
    /\ gm_manifest = "none"
    /\ gm_err = "none"
    /\ gm_pc = "idle"

\* manifest synthesis is not exercised
SynthIdle == ExIdle /\ VoIdle /\ GmIdle

SlIdle ==
    /\ sl_idx = 0
    /\ sl_curPath = <<>>
    /\ sl_matchPaths = <<>>

AlIdle ==
    /\ al_arrays = <<>>
    /\ al_images = <<>>
    /\ al_curPwl = [arr |-> 0, len |-> 0]
    /\ al_pc = "idle"

PwlIdle == SlIdle /\ AlIdle

----------------------------------------------------------------------------
(* Generic helpers *)

Range(s) == { s[i] : i \in 1..Len(s) }

SeqsUpTo(S, n) == UNION { [1..k -> S] : k \in 0..n }

NoDup(s) == \A i, j \in 1..Len(s) : s[i] = s[j] => i = j

\* utils.IndexOf: the first index of el in list, 0 when absent (Go: -1)
IndexOf(list, el) ==
    IF \E i \in 1..Len(list) : list[i] = el
    THEN CHOOSE i \in 1..Len(list) :
            /\ list[i] = el
            /\ \A j \in 1..(i - 1) : list[j] # el
    ELSE 0

\* utils.In
In(list, el) == IndexOf(list, el) # 0

\* append(list[:idx], list[idx+1:]...)
RemoveAt(list, idx) ==
    SubSeq(list, 1, idx - 1) \o SubSeq(list, idx + 1, Len(list))

----------------------------------------------------------------------------
(* Paths *)

Root == <<"/">>

\* the byte order of the component names the model uses
NameOrder == <<"/", "a", "b", "dev", "fd", "stderr", "stdin", "stdout">>

NameRank(c) == CHOOSE i \in 1..Len(NameOrder) : NameOrder[i] = c

\* Go's string order on paths whose components are alphanumeric: "/" sorts
\* before every letter, so the order is the lexicographic order of the
\* component sequences
RECURSIVE PathLess(_, _)
PathLess(p, q) ==
    IF p = <<>> THEN q # <<>>
    ELSE IF q = <<>> THEN FALSE
    ELSE IF p[1] = q[1] THEN PathLess(Tail(p), Tail(q))
    ELSE NameRank(p[1]) < NameRank(q[1])

\* filepath.Dir on a clean path
Dir(p) ==
    IF p = <<>> THEN <<".">>
    ELSE IF Len(p) = 1 THEN (IF p = Root THEN Root ELSE <<".">>)
    ELSE SubSeq(p, 1, Len(p) - 1)

\* sort.Sort(sort.StringSlice(s)): insertion of each element in order
RECURSIVE InsertSorted(_, _)
InsertSorted(s, p) ==
    IF s = <<>> THEN <<p>>
    ELSE IF PathLess(p, s[1]) THEN <<p>> \o s
    ELSE <<s[1]>> \o InsertSorted(Tail(s), p)

RECURSIVE SortPaths(_)
SortPaths(s) ==
    IF s = <<>> THEN <<>>
    ELSE InsertSorted(SortPaths(Tail(s)), s[1])

IsSorted(s) == \A i \in 1..(Len(s) - 1) : ~PathLess(s[i + 1], s[i])

----------------------------------------------------------------------------
(* subtractWhiteouts *)

\* one copy of path for every whiteout equal to curPath
RECURSIVE WhiteoutHits(_, _, _)
WhiteoutHits(path, curPath, whiteouts) ==
    IF whiteouts = <<>> THEN <<>>
    ELSE (IF curPath = whiteouts[1] THEN <<path>> ELSE <<>>)
            \o WhiteoutHits(path, curPath, Tail(whiteouts))

\* a walk that compares the path itself and none of its parent directories
WalkUpSelfOnly(path, curPath, whiteouts) ==
    IF curPath = Root THEN <<>> ELSE WhiteoutHits(path, curPath, whiteouts)

\* the walk from path up through its parent directories, until "/"
RECURSIVE WalkUp(_, _, _)
WalkUp(path, curPath, whiteouts) ==
    IF curPath = Root THEN <<>>
    ELSE WhiteoutHits(path, curPath, whiteouts)
            \o WalkUp(path, Dir(curPath), whiteouts)

\* the first loop: matchPaths
RECURSIVE MatchPaths(_, _)
MatchPaths(pathWhitelist, whiteouts) ==
    IF pathWhitelist = <<>> THEN <<>>
    ELSE WalkUp(pathWhitelist[1], pathWhitelist[1], whiteouts)
            \o MatchPaths(Tail(pathWhitelist), whiteouts)

\* one step of the second loop: drop the first occurrence of matchPath
RemoveMatch(pathWhitelist, matchPath) ==
    IF IndexOf(pathWhitelist, matchPath) # 0
    THEN RemoveAt(pathWhitelist, IndexOf(pathWhitelist, matchPath))
    ELSE pathWhitelist

\* the second loop
RECURSIVE RemoveMatches(_, _)
RemoveMatches(pathWhitelist, matchPaths) ==
    IF matchPaths = <<>> THEN pathWhitelist
    ELSE RemoveMatches(RemoveMatch(pathWhitelist, matchPaths[1]), Tail(matchPaths))

subtractWhiteouts(pathWhitelist, whiteouts) ==
    SortPaths(RemoveMatches(pathWhitelist, MatchPaths(pathWhitelist, whiteouts)))

----------------------------------------------------------------------------
(* Tar header names *)

\* the components that mark a whiteout, and the name each deletes
WhName == [c \in {".wh.a", ".wh.b", ".wh.dev", ".wh.stdin"} |->
            CASE c = ".wh.a" -> "a"
              [] c = ".wh.b" -> "b"
              [] c = ".wh.dev" -> "dev"
              [] c = ".wh.stdin" -> "stdin"]

IsWh(c) == c \in DOMAIN WhName

\* path.Clean on the components of a relative path: "" and "." are
\* dropped, ".." removes the component before it
RECURSIVE CleanComps(_, _)
CleanComps(done, rest) ==
    IF rest = <<>> THEN done
    ELSE IF rest[1] \in {"", "."} THEN CleanComps(done, Tail(rest))
    ELSE IF rest[1] = ".."
         THEN IF done # <<>> /\ done[Len(done)] # ".."
              THEN CleanComps(SubSeq(done, 1, Len(done) - 1), Tail(rest))
              ELSE CleanComps(Append(done, ".."), Tail(rest))
    ELSE CleanComps(Append(done, rest[1]), Tail(rest))

\* path.Join("rootfs", name)
JoinRootfs(name) ==
    IF CleanComps(<<"rootfs">>, name) = <<>> THEN <<".">>
    ELSE CleanComps(<<"rootfs">>, name)

\* strings.TrimPrefix(headerName, "rootfs")
TrimRootfs(headerName) ==
    IF headerName # <<>> /\ headerName[1] = "rootfs"
    THEN IF Len(headerName) = 1 THEN <<>> ELSE Root \o Tail(headerName)
    ELSE headerName

\* filepath.Clean of the absolute path: the empty string cleans to "."
CleanAbs(p) == IF p = <<>> THEN <<".">> ELSE p

\* strings.Contains(headerName, "/.wh."): a component after the first
\* starts with ".wh."
ContainsWh(headerName) ==
    \E i \in 2..Len(headerName) : IsWh(headerName[i])

\* strings.Replace(absolutePath, ".wh.", "", 1): the first marker loses its
\* prefix
StripFirstWh(p) ==
    IF \E i \in 1..Len(p) : IsWh(p[i])
    THEN LET i == CHOOSE k \in 1..Len(p) :
                    IsWh(p[k]) /\ \A j \in 1..(k - 1) : ~IsWh(p[j])
         IN [p EXCEPT ![i] = WhName[p[i]]]
    ELSE p

----------------------------------------------------------------------------
(* writeACI *)

\* WriteRootfsDir
RootfsHeader == [name |-> <<"rootfs">>, typeflag |-> "dir", linkname |-> <<>>]

\* WriteManifest
ManifestHeader == [name |-> <<"manifest">>, typeflag |-> "reg", linkname |-> <<>>]

\* the entries a layer tar is drawn from: t.Name() split at "/", the type
\* flag and the link name
LayerEntries ==
    { [name |-> <<".", "">>,            typeflag |-> "dir",  linkname |-> <<>>],
      [name |-> <<"a", "">>,            typeflag |-> "dir",  linkname |-> <<>>],
      [name |-> <<"a", "b">>,           typeflag |-> "reg",  linkname |-> <<>>],
      [name |-> <<"b">>,                typeflag |-> "link", linkname |-> <<"a", "b">>],
      [name |-> <<"a", ".wh.b">>,       typeflag |-> "reg",  linkname |-> <<>>],
      [name |-> <<".wh.a">>,            typeflag |-> "reg",  linkname |-> <<>>],
      [name |-> <<"dev", "">>,          typeflag |-> "dir",  linkname |-> <<>>],
      [name |-> <<"dev">>,              typeflag |-> "reg",  linkname |-> <<>>],
      [name |-> <<"dev", "stdin">>,     typeflag |-> "symlink", linkname |-> <<>>],
      [name |-> <<"dev", ".wh.stdin">>, typeflag |-> "reg",  linkname |-> <<>>] }

\* the paths an inherited PWL is drawn from
InheritedPaths ==
    { <<"/", "a", "b">>, <<"/", "b">>, <<"/", "dev", "stdin">> }

\* convWalker's view of one entry
HeaderName(e) == JoinRootfs(e.name)
AbsolutePath(e) == TrimRootfs(HeaderName(e))
IsDotEntry(e) == e.name = <<".", "">>
IsDevAnyType(e) == CleanAbs(AbsolutePath(e)) = <<"/", "dev">>
IsDevNonDir(e) == CleanAbs(AbsolutePath(e)) = <<"/", "dev">> /\ e.typeflag # "dir"
IsWhiteout(e) == ContainsWh(HeaderName(e))

\* the header convWalker writes for an entry that is not a whiteout
WrittenHeader(e) ==
    [name |-> HeaderName(e),
     typeflag |-> e.typeflag,
     linkname |-> IF e.typeflag = "link" THEN JoinRootfs(e.linkname)
                  ELSE e.linkname]

PwlAfterWriteAlways(curPwl, absolutePath) ==
    Append(curPwl, absolutePath)

\* curPwl after convWalker wrote the entry
PwlAfterWrite(curPwl, absolutePath) ==
    IF ~In(curPwl, absolutePath) THEN Append(curPwl, absolutePath) ELSE curPwl

\* stdioSymlinks, in the order of the table
StdioSymlinks ==
    << [linkname |-> <<"/", "dev", "stdin">>,  target |-> "/proc/self/fd/0"],
       [linkname |-> <<"/", "dev", "stdout">>, target |-> "/dev/console"],
       [linkname |-> <<"/", "dev", "stderr">>, target |-> "/dev/console"],
       [linkname |-> <<"/", "dev", "fd">>,     target |-> "/proc/self/fd"] >>

\* the symlinks writeStdioSymlinks emits: those missing from fileMap
RECURSIVE MissingSymlinks(_, _)
MissingSymlinks(links, fileMap) ==
    IF links = <<>> THEN <<>>
    ELSE (IF links[1].linkname \in fileMap THEN <<>> ELSE <<links[1]>>)
            \o MissingSymlinks(Tail(links), fileMap)

\* filepath.Join("rootfs", name) of an absolute stdio path
SymlinkHeader(s) ==
    [name |-> <<"rootfs">> \o Tail(s.linkname),
     typeflag |-> "symlink",
     linkname |-> <<s.target>>]

RECURSIVE SymlinkHeaders(_)
SymlinkHeaders(links) ==
    IF links = <<>> THEN <<>>
    ELSE <<SymlinkHeader(links[1])>> \o SymlinkHeaders(Tail(links))

\* the PWL writeStdioSymlinks returns
RECURSIVE PwlWithSymlinks(_, _)
PwlWithSymlinks(pwl, links) ==
    IF links = <<>> THEN pwl
    ELSE PwlWithSymlinks(
            IF ~In(pwl, links[1].linkname) THEN Append(pwl, links[1].linkname)
            ELSE pwl,
            Tail(links))

writeStdioSymlinksKeepPwl(fileMap, pwl) == pwl

writeStdioSymlinks(fileMap, pwl) ==
    PwlWithSymlinks(pwl, MissingSymlinks(StdioSymlinks, fileMap))

\* writeACI up to the walk: the rootfs directory entry is written
WriteACIInit ==
    /\ SwIdle /\ GiIdle /\ SqIdle /\ MmIdle /\ CvIdle /\ SynthIdle /\ PwlIdle
    /\ w_layer = 0
    /\ w_t = NoEntry
    /\ w_err = "none"
    /\ w_validTar \in BOOLEAN
    /\ w_inherited \in { s \in SeqsUpTo(InheritedPaths, MaxInherited) : NoDup(s) }
    /\ w_curPwl = w_inherited
    /\ w_fileMap = {}
    /\ w_whiteouts = <<>>
    /\ w_tar = <<RootfsHeader>>
    /\ w_walked = 0
    /\ w_manifestPwl = <<>>
    /\ w_pc = "walk"

\* convWalker on the dot entry "./": nothing happens
WalkDotEntry(e) ==
    /\ w_pc = "walk" /\ w_validTar /\ w_walked < MaxEntries
    /\ IsDotEntry(e)
    /\ w_walked' = w_walked + 1
    /\ UNCHANGED <<w_layer, w_validTar, w_inherited, w_curPwl, w_fileMap, w_whiteouts,
                   w_tar, w_manifestPwl, w_pc>>
    /\ w_t' = e
    /\ UNCHANGED w_err
    /\ UNCHANGED NotW

\* convWalker on a non-directory at /dev: the walk and writeACI fail
WalkDevError(e) ==
    /\ w_pc = "walk" /\ w_validTar /\ w_walked < MaxEntries
    /\ ~IsDotEntry(e) /\ IsDevNonDir(e)
    /\ w_walked' = w_walked + 1
    /\ w_pc' = "error"
    /\ UNCHANGED <<w_layer, w_validTar, w_inherited, w_curPwl, w_fileMap, w_whiteouts,
                   w_tar, w_manifestPwl>>
    /\ w_t' = e
    /\ w_err' = "/dev is not a directory"
    /\ UNCHANGED NotW

\* convWalker on a whiteout marker: recorded, not written
WalkWhiteout(e) ==
    /\ w_pc = "walk" /\ w_validTar /\ w_walked < MaxEntries
    /\ ~IsDotEntry(e) /\ ~IsDevNonDir(e) /\ IsWhiteout(e)
    /\ w_walked' = w_walked + 1
    /\ w_fileMap' = w_fileMap \cup {AbsolutePath(e)}
    /\ w_whiteouts' = Append(w_whiteouts, StripFirstWh(AbsolutePath(e)))
    /\ UNCHANGED <<w_layer, w_validTar, w_inherited, w_curPwl, w_tar, w_manifestPwl, w_pc>>
    /\ w_t' = e
    /\ UNCHANGED w_err
    /\ UNCHANGED NotW

\* convWalker on any other entry: written, added to fileMap and to curPwl
WalkWrite(e) ==
    /\ w_pc = "walk" /\ w_validTar /\ w_walked < MaxEntries
    /\ ~IsDotEntry(e) /\ ~IsDevNonDir(e) /\ ~IsWhiteout(e)
    /\ w_walked' = w_walked + 1
    /\ w_fileMap' = w_fileMap \cup {AbsolutePath(e)}
    /\ w_tar' = Append(w_tar, WrittenHeader(e))
    /\ w_curPwl' = PwlAfterWrite(w_curPwl, AbsolutePath(e))
    /\ UNCHANGED <<w_layer, w_validTar, w_inherited, w_whiteouts, w_manifestPwl, w_pc>>
    /\ w_t' = e
    /\ UNCHANGED w_err
    /\ UNCHANGED NotW

\* utils.Walk fails reading the next entry
WalkReadError ==
    /\ w_pc = "walk" /\ w_validTar
    /\ w_pc' = "error"
    /\ UNCHANGED <<w_layer, w_validTar, w_inherited, w_curPwl, w_fileMap, w_whiteouts,
                   w_tar, w_walked, w_manifestPwl>>
    /\ w_err' = "read"
    /\ UNCHANGED w_t
    /\ UNCHANGED NotW

\* the end of the walk (or a payload that did not open): whiteout
\* subtraction, the stdio symlinks, the manifest
WriteACIFinish ==
    /\ w_pc = "walk"
    /\ LET newPwl == subtractWhiteouts(w_curPwl, w_whiteouts)
       IN /\ w_manifestPwl' = writeStdioSymlinks(w_fileMap, newPwl)
          /\ w_tar' = w_tar
                \o SymlinkHeaders(MissingSymlinks(StdioSymlinks, w_fileMap))
                \o <<ManifestHeader>>
    /\ w_pc' = "returned"
    /\ UNCHANGED <<w_layer, w_validTar, w_inherited, w_curPwl, w_fileMap, w_whiteouts,
                   w_walked>>
    /\ UNCHANGED <<w_t, w_err>>
    /\ UNCHANGED NotW

WriteACINext ==
    \/ \E e \in LayerEntries :
          WalkDotEntry(e) \/ WalkDevError(e) \/ WalkWhiteout(e) \/ WalkWrite(e)
    \/ WalkReadError
    \/ WriteACIFinish

SpecWriteACI == WriteACIInit /\ [][WriteACINext]_vars

----------------------------------------------------------------------------
(* Specification SpecChain: the layers of one conversion, built base first, *)
(* each on the pathWhitelist of the manifest of the one before              *)

\* convertRun: the base layer is built with var curPwl []string
ChainInit ==
    /\ SwIdle /\ GiIdle /\ SqIdle /\ MmIdle /\ CvIdle /\ SynthIdle /\ PwlIdle
    /\ w_layer = 0
    /\ w_t = NoEntry
    /\ w_err = "none"
    /\ w_validTar \in BOOLEAN
    /\ w_inherited = <<>>
    /\ w_curPwl = <<>>
    /\ w_fileMap = {}
    /\ w_whiteouts = <<>>
    /\ w_tar = <<RootfsHeader>>
    /\ w_walked = 0
    /\ w_manifestPwl = <<>>
    /\ w_pc = "walk"

\* convertRun: curPwl = manifest.PathWhitelist, and writeACI of the next
\* layer up to the walk
BuildNextLayer ==
    /\ w_pc = "returned"
    /\ w_layer + 1 < MaxChain
    /\ w_layer' = w_layer + 1
    /\ w_t' = NoEntry
    /\ w_err' = "none"
    /\ w_validTar' \in BOOLEAN
    /\ w_inherited' = w_manifestPwl
    /\ w_curPwl' = w_manifestPwl
    /\ w_fileMap' = {}
    /\ w_whiteouts' = <<>>
    /\ w_tar' = <<RootfsHeader>>
    /\ w_walked' = 0
    /\ w_manifestPwl' = <<>>
    /\ w_pc' = "walk"
    /\ UNCHANGED NotW

ChainNext ==
    \/ WriteACINext
    \/ BuildNextLayer

SpecChain == ChainInit /\ [][ChainNext]_vars

----------------------------------------------------------------------------
(* The archive reader: getImageID, getAncestry, getParent *)

AppNames == {"app1", "app2"}
TagNames == {"latest", "v1", "v2"}
\* the ids repositories may name
RepoIds == {"i1", "i2"}
\* the layer ids of the archive
LayerIds == {"i1", "i2", "i3"}

\* a map with keys in K and values in V
PartialMaps(K, V) == UNION { [D -> V] : D \in SUBSET K }

\* the single key of a one-key map
OnlyKey(m) == CHOOSE k \in DOMAIN m : TRUE

\* the orders a range over the keys of a map may take
KeyOrders(m) ==
    { s \in [1..Cardinality(DOMAIN m) -> DOMAIN m] : Range(s) = DOMAIN m }

ErrSeveral(listing) == [kind |-> "several images found", names |-> listing]
ErrNoImages == [kind |-> "no images found", names |-> <<>>]
ErrTagNotFound == [kind |-> "tag not found", names |-> <<>>]
ErrNoRepositories == [kind |-> "repositories file not found", names |-> <<>>]
ErrLayerJson == [kind |-> "error unmarshaling layer data", names |-> <<>>]

\* a tag map that always yields a tag while it holds one
SelectTagAny(app) ==
    IF "latest" \in DOMAIN app THEN "latest"
    ELSE IF DOMAIN app # {} THEN CHOOSE t \in DOMAIN app : TRUE
    ELSE ""

\* the tag reposWalker settles on: "latest", else the only tag, else none ("")
SelectTag(app) ==
    IF "latest" \in DOMAIN app THEN "latest"
    ELSE IF Cardinality(DOMAIN app) = 1 THEN OnlyKey(app)
    ELSE ""

\* reposWalker on the repositories entry, for the order `listing` its range
\* over the app names takes: the error it returns and what it assigns
ReposWalker(repositories, listing) ==
    LET n == Cardinality(DOMAIN repositories) IN
    IF n > 1 THEN [err |-> ErrSeveral(listing), imageID |-> "", appName |-> ""]
    ELSE IF n = 0 THEN [err |-> ErrNoImages, imageID |-> "", appName |-> ""]
    ELSE LET appName == OnlyKey(repositories)
             app == repositories[appName]
             tag == SelectTag(app)
         IN IF tag = ""
            THEN [err |-> ErrTagNotFound, imageID |-> "", appName |-> appName]
            ELSE [err |-> NoError, imageID |-> app[tag], appName |-> appName]

\* getImageID: the walk over the archive, then the check that an id was found
getImageID(hasRepos, repositories, listing) ==
    LET walked == IF hasRepos THEN ReposWalker(repositories, listing)
                  ELSE [err |-> NoError, imageID |-> "", appName |-> ""]
    IN IF walked.err # NoError THEN walked
       ELSE IF walked.imageID = ""
            THEN [err |-> ErrNoRepositories, imageID |-> "", appName |-> ""]
       ELSE walked

\* <id>/json in the archive
JsonMissing == [state |-> "missing", parent |-> ""]
JsonMalformed == [state |-> "malformed", parent |-> ""]
JsonOf(parent) == [state |-> "ok", parent |-> parent]
JsonValues == {JsonMissing, JsonMalformed} \cup { JsonOf(p) : p \in LayerIds \cup {""} }

\* getParent: the parent named by <imgID>/json; "" when no entry matches
getParent(json, imgID) ==
    IF json[imgID].state = "malformed" THEN [err |-> ErrLayerJson, parent |-> ""]
    ELSE IF json[imgID].state = "missing" THEN [err |-> NoError, parent |-> ""]
    ELSE [err |-> NoError, parent |-> json[imgID].parent]

ImageInfoInit ==
    /\ SwIdle /\ WIdle /\ SqIdle /\ MmIdle /\ CvIdle /\ SynthIdle /\ PwlIdle
    /\ a_hasRepos \in BOOLEAN
    /\ a_repos \in PartialMaps(AppNames, PartialMaps(TagNames, RepoIds))
    /\ (~a_hasRepos => a_repos = <<>>)
    /\ a_json \in [LayerIds -> JsonValues]
    /\ gi_imageID = ""
    /\ gi_appName = ""
    /\ gi_err = NoError
    /\ gi_ancestry = <<>>
    /\ gi_curImgID = ""
    /\ gi_pc = "getImageID"

\* GetImageInfo, first half: getImageID
GetImageID ==
    /\ gi_pc = "getImageID"
    /\ \E listing \in KeyOrders(a_repos) :
        LET r == getImageID(a_hasRepos, a_repos, listing)
        IN /\ gi_err' = r.err
           /\ gi_imageID' = r.imageID
           /\ gi_appName' = r.appName
           /\ gi_curImgID' = r.imageID
           /\ gi_pc' = IF r.err = NoError THEN "getAncestry" ELSE "error"
    /\ UNCHANGED <<gi_ancestry>>
    /\ UNCHANGED NotGi

\* getAncestry, one turn of the loop whose getParent succeeds
AncestryStep ==
    /\ gi_pc = "getAncestry" /\ gi_curImgID # ""
    /\ Len(gi_ancestry) < MaxAncestry
    /\ getParent(a_json, gi_curImgID).err = NoError
    /\ gi_ancestry' = Append(gi_ancestry, gi_curImgID)
    /\ gi_curImgID' = getParent(a_json, gi_curImgID).parent
    /\ UNCHANGED <<gi_imageID, gi_appName, gi_err, gi_pc>>
    /\ UNCHANGED NotGi

\* getAncestry, a turn of the loop whose getParent fails
AncestryError ==
    /\ gi_pc = "getAncestry" /\ gi_curImgID # ""
    /\ Len(gi_ancestry) < MaxAncestry
    /\ getParent(a_json, gi_curImgID).err # NoError
    /\ gi_ancestry' = <<>>
    /\ gi_err' = getParent(a_json, gi_curImgID).err
    /\ gi_pc' = "error"
    /\ UNCHANGED <<gi_imageID, gi_appName, gi_curImgID>>
    /\ UNCHANGED NotGi

\* getAncestry leaves the loop; GetImageInfo returns the ancestry
AncestryReturn ==
    /\ gi_pc = "getAncestry" /\ gi_curImgID = ""
    /\ gi_pc' = "returned"
    /\ UNCHANGED <<gi_imageID, gi_appName, gi_err, gi_ancestry, gi_curImgID>>
    /\ UNCHANGED NotGi

ImageInfoNext ==
    \/ GetImageID
    \/ AncestryStep
    \/ AncestryError
    \/ AncestryReturn

SpecImageInfo == ImageInfoInit /\ [][ImageInfoNext]_vars

----------------------------------------------------------------------------
(* The squasher: writeSquashedImage *)

\* clean names of the file entries of a per-layer ACI
SquashNames ==
    { <<"rootfs", "f">>, <<"rootfs", "l1">>, <<"rootfs", "l2">> }

\* filepath.Clean of a header name
Clean(name) ==
    IF CleanComps(<<>>, name) = <<>> THEN <<".">> ELSE CleanComps(<<>>, name)

\* the entries every per-layer ACI starts and ends with
SqRootfsEntry ==
    [name |-> <<"rootfs">>, typeflag |-> "dir", linkname |-> <<>>, data |-> <<>>]
SqManifestEntry ==
    [name |-> <<"manifest">>, typeflag |-> "reg", linkname |-> <<>>, data |-> <<"manifest">>]

\* a regular file holding bytes of its own, and a hard link
RegEntry(k, name) ==
    [name |-> name, typeflag |-> "reg", linkname |-> <<>>, data |-> <<k, name>>]
LinkEntry(name, target) ==
    [name |-> name, typeflag |-> "link", linkname |-> target, data |-> <<>>]

\* the file entries layer k may hold
SquashEntriesOf(k) ==
    { RegEntry(k, n) : n \in SquashNames }
        \cup UNION { { LinkEntry(n, t) : t \in SquashNames \ {n} } : n \in SquashNames }

EntryNames(entries) == { entries[i].name : i \in 1..Len(entries) }

\* a layer tar: no name twice, and a hard link names a file, not another link
WellFormedEntries(entries) ==
    /\ \A i, j \in 1..Len(entries) : entries[i].name = entries[j].name => i = j
    /\ \A i, j \in 1..Len(entries) :
          (entries[i].typeflag = "link" /\ entries[j].name = entries[i].linkname)
              => entries[j].typeflag # "link"

\* the layers of a rendered list with m file entries: the entries of the ACI
\* between its rootfs and manifest entries, and the FileMap the renderer
\* computed, which holds names of the layer's own entries
SquashLayersOf(k, m) ==
    UNION { { [entries |-> es, fileMap |-> fm] : fm \in SUBSET EntryNames(es) } :
            es \in { x \in [1..m -> SquashEntriesOf(k)] : WellFormedEntries(x) } }

\* the rendered lists of one or two layers with at most total file entries;
\* a name is in the FileMap of one layer at most
RenderedLists(total) ==
    UNION { { <<l1>> : l1 \in SquashLayersOf(1, m) } : m \in 0..total }
    \cup UNION { UNION { { <<l1, l2>> : l1 \in SquashLayersOf(1, m1),
                                      l2 \in SquashLayersOf(2, m2) } :
                         m2 \in 0..(total - m1) } : m1 \in 0..total }

DisjointFileMaps(r) ==
    \A k, j \in 1..Len(r) : k # j => r[k].fileMap \cap r[j].fileMap = {}

\* the entries of the ACI of layer k as the walk reads them
AciEntries(rendered, k) ==
    <<SqRootfsEntry>> \o rendered[k].entries \o <<SqManifestEntry>>

OutEntryNoBytes(k, hdr, t) ==
    [name |-> hdr.name, typeflag |-> hdr.typeflag, linkname |-> hdr.linkname,
     data |-> <<>>, from |-> k]

\* an entry of the squashed tar: a header, the bytes copied after it, and the
\* layer and the header the remaining fields came from
OutEntry(k, hdr, t) ==
    [name |-> hdr.name, typeflag |-> hdr.typeflag, linkname |-> hdr.linkname,
     data |-> t.data, from |-> k]

\* a promoted header that keeps the name of the file
PromotedHeaderKeepName(firstLinkHeader, t) ==
    [firstLinkHeader EXCEPT !.name = t.name, !.typeflag = t.typeflag,
                            !.linkname = <<>>]

\* the header written for a file that does not remain while a link to it does
PromotedHeader(firstLinkHeader, t) ==
    [firstLinkHeader EXCEPT !.typeflag = t.typeflag, !.linkname = <<>>]

\* the first-pass squashWalker on entry t of layer k
Pass1Walker(links, fileMap, t) ==
    LET cleanName == Clean(t.name)
        keep == cleanName \in fileMap
        cleanTarget == Clean(t.linkname)
    IN IF cleanName \in {<<"manifest">>, <<"rootfs">>} THEN links
       ELSE IF keep /\ t.typeflag = "link" /\ cleanTarget \notin DOMAIN links
            THEN [x \in DOMAIN links \cup {cleanTarget} |->
                    IF x = cleanTarget
                    THEN [firstLinkCleanName |-> cleanName,
                          firstLinkHeader |-> t,
                          keepOriginal |-> cleanTarget \in fileMap,
                          walked |-> FALSE]
                    ELSE links[x]]
       ELSE links

\* the second-pass squashWalker on entry t of layer k: the error it returns,
\* the entries it writes and the table it leaves
Pass2Walker(k, links, fileMap, t) ==
    LET cleanName == Clean(t.name)
        keep == cleanName \in fileMap
        cleanTarget == Clean(t.linkname)
        nothing == [err |-> FALSE, out |-> <<>>, links |-> links]
    IN IF cleanName \in {<<"manifest">>, <<"rootfs">>} THEN nothing
       ELSE IF cleanName \in DOMAIN links
       THEN IF keep # links[cleanName].keepOriginal
            THEN [err |-> TRUE, out |-> <<>>, links |-> links]
            ELSE IF keep
            THEN [err |-> FALSE, out |-> <<OutEntry(k, t, t)>>, links |-> links]
            ELSE [err |-> FALSE,
                  out |-> <<OutEntry(k, PromotedHeader(links[cleanName].firstLinkHeader, t), t)>>,
                  links |-> links]
       ELSE IF keep
       THEN IF t.typeflag = "link" /\ cleanTarget \in DOMAIN links
            THEN LET link == links[cleanTarget]
                     walkedLinks == [links EXCEPT ![cleanTarget].walked = TRUE]
                 IN IF ~link.keepOriginal /\ ~link.walked
                    THEN [err |-> FALSE, out |-> <<>>, links |-> walkedLinks]
                    ELSE IF ~link.keepOriginal
                    THEN [err |-> FALSE,
                          out |-> <<OutEntry(k, [t EXCEPT !.linkname = link.firstLinkCleanName], t)>>,
                          links |-> walkedLinks]
                    ELSE [err |-> FALSE, out |-> <<OutEntry(k, t, t)>>,
                          links |-> walkedLinks]
            ELSE [err |-> FALSE, out |-> <<OutEntry(k, t, t)>>, links |-> links]
       ELSE nothing

\* writeSquashedImage up to the first pass: the merged manifest and the
\* rootfs directory are written
SquashInit ==
    /\ SwIdle /\ WIdle /\ GiIdle /\ MmIdle /\ CvIdle /\ SynthIdle /\ PwlIdle
    /\ sq_rendered \in { r \in RenderedLists(MaxSquashEntries) : DisjointFileMaps(r) }
    /\ sq_hardLinks = [k \in {} |-> <<>>]
    /\ sq_out = << OutEntry(0, SqManifestEntry, SqManifestEntry),
                   OutEntry(0, SqRootfsEntry, SqRootfsEntry) >>
    /\ sq_layer = 1
    /\ sq_entry = 0
    /\ sq_pc = "pass1"

\* a pass opens the stream of the next layer; the first pass gives it an
\* empty table
OpenLayer ==
    /\ sq_pc \in {"pass1", "pass2"}
    /\ sq_layer <= Len(sq_rendered) /\ sq_entry = 0
    /\ sq_entry' = 1
    /\ sq_hardLinks' =
          IF sq_pc = "pass1"
          THEN [k \in DOMAIN sq_hardLinks \cup {sq_layer} |->
                    IF k = sq_layer THEN [x \in {} |-> <<>>] ELSE sq_hardLinks[k]]
          ELSE sq_hardLinks
    /\ UNCHANGED <<sq_rendered, sq_out, sq_layer, sq_pc>>
    /\ UNCHANGED NotSq

\* ReadStream fails: writeSquashedImage returns the error
OpenLayerError ==
    /\ sq_pc \in {"pass1", "pass2"}
    /\ sq_layer <= Len(sq_rendered) /\ sq_entry = 0
    /\ sq_pc' = "error"
    /\ UNCHANGED <<sq_rendered, sq_hardLinks, sq_out, sq_layer, sq_entry>>
    /\ UNCHANGED NotSq

\* the first pass reads one entry
Pass1Entry ==
    /\ sq_pc = "pass1"
    /\ sq_layer <= Len(sq_rendered)
    /\ sq_entry \in 1..Len(AciEntries(sq_rendered, sq_layer))
    /\ sq_hardLinks' =
          [sq_hardLinks EXCEPT ![sq_layer] =
              Pass1Walker(sq_hardLinks[sq_layer], sq_rendered[sq_layer].fileMap,
                          AciEntries(sq_rendered, sq_layer)[sq_entry])]
    /\ sq_entry' = sq_entry + 1
    /\ UNCHANGED <<sq_rendered, sq_out, sq_layer, sq_pc>>
    /\ UNCHANGED NotSq

\* the second pass reads one entry and writes what the walker decides
Pass2Entry ==
    /\ sq_pc = "pass2"
    /\ sq_layer <= Len(sq_rendered)
    /\ sq_entry \in 1..Len(AciEntries(sq_rendered, sq_layer))
    /\ LET r == Pass2Walker(sq_layer, sq_hardLinks[sq_layer],
                            sq_rendered[sq_layer].fileMap,
                            AciEntries(sq_rendered, sq_layer)[sq_entry])
       IN /\ sq_hardLinks' = [sq_hardLinks EXCEPT ![sq_layer] = r.links]
          /\ sq_out' = sq_out \o r.out
          /\ sq_pc' = IF r.err THEN "error" ELSE sq_pc
    /\ sq_entry' = sq_entry + 1
    /\ UNCHANGED <<sq_rendered, sq_layer>>
    /\ UNCHANGED NotSq

\* the end of a layer's tar: on to the next layer
EndOfLayer ==
    /\ sq_pc \in {"pass1", "pass2"}
    /\ sq_layer <= Len(sq_rendered)
    /\ sq_entry = Len(AciEntries(sq_rendered, sq_layer)) + 1
    /\ sq_layer' = sq_layer + 1
    /\ sq_entry' = 0
    /\ UNCHANGED <<sq_rendered, sq_hardLinks, sq_out, sq_pc>>
    /\ UNCHANGED NotSq

\* the first pass is through all layers: the second starts
EndOfPass1 ==
    /\ sq_pc = "pass1" /\ sq_layer = Len(sq_rendered) + 1
    /\ sq_pc' = "pass2"
    /\ sq_layer' = 1
    /\ UNCHANGED <<sq_rendered, sq_hardLinks, sq_out, sq_entry>>
    /\ UNCHANGED NotSq

\* the second pass is through all layers: writeSquashedImage returns nil
EndOfPass2 ==
    /\ sq_pc = "pass2" /\ sq_layer = Len(sq_rendered) + 1
    /\ sq_pc' = "returned"
    /\ UNCHANGED <<sq_rendered, sq_hardLinks, sq_out, sq_layer, sq_entry>>
    /\ UNCHANGED NotSq

SquashNext ==
    \/ OpenLayer
    \/ OpenLayerError
    \/ Pass1Entry
    \/ Pass2Entry
    \/ EndOfLayer
    \/ EndOfPass1
    \/ EndOfPass2

SpecSquash == SquashInit /\ [][SquashNext]_vars

----------------------------------------------------------------------------
(* Specification SpecSubtract: subtractWhiteouts on bounded inputs *)

\* clean absolute paths below the root, up to three levels deep
SubPaths ==
    { <<"/", "a">>, <<"/", "b">>, <<"/", "a", "a">>, <<"/", "a", "b">>,
      <<"/", "a", "a", "b">> }

SubtractInit ==
    /\ WIdle /\ GiIdle /\ SqIdle /\ MmIdle /\ CvIdle /\ SynthIdle /\ PwlIdle
    /\ sw_pathWhitelist \in SeqsUpTo(SubPaths, MaxPwl)
    /\ sw_whiteouts \in SeqsUpTo(SubPaths, MaxWhiteouts)
    /\ sw_result = <<>>
    /\ sw_pc = "call"

SubtractCall ==
    /\ sw_pc = "call"
    /\ sw_result' = subtractWhiteouts(sw_pathWhitelist, sw_whiteouts)
    /\ sw_pc' = "returned"
    /\ UNCHANGED <<sw_pathWhitelist, sw_whiteouts>>
    /\ UNCHANGED NotSw

SubtractNext == SubtractCall

SpecSubtract == SubtractInit /\ [][SubtractNext]_vars

----------------------------------------------------------------------------
(* The squasher: mergeManifests *)

\* names are sequences of pieces; the separators "-" and "/" are pieces of
\* their own and no other piece holds one
MergeAppNames == { <<"app">>, <<"org", "/", "app">>, <<"my", "-", "app">> }

MergeLayerIds == { "i1", "i2" }

\* the name GenerateManifest gives a layer: appName + "-" + layerData.ID
ManifestName(appName, id) == appName \o <<"-", id>>

schemaVersion == "0.7.0"

\* the labels GenerateManifest may give a layer, in any order, no name twice
LabelOf(name, id) ==
    [name |-> name,
     value |-> CASE name = "layer" -> id
                 [] name = "version" -> "latest"
                 [] name = "os" -> "linux"
                 [] OTHER -> "amd64"]

LabelLists(id) ==
    { [i \in 1..Len(names) |-> LabelOf(names[i], id)] :
        names \in { n \in SeqsUpTo({"layer", "version", "os", "arch"}, MaxLabels) : NoDup(n) } }

AnnotationLists(id) ==
    { <<>>, << [name |-> "appc.io/docker/imageid", value |-> id] >> }

DependencyLists ==
    { <<>>, << [imageName |-> ManifestName(<<"app">>, "i3")] >> }

ManifestsOf(appNames, ids, pwls) ==
    UNION { { [name |-> ManifestName(a, id), acVersion |-> schemaVersion,
               acKind |-> "ImageManifest", labels |-> l, annotations |-> an,
               app |-> ap, dependencies |-> d, pathWhitelist |-> pw] :
                a \in appNames, l \in LabelLists(id), an \in AnnotationLists(id),
                ap \in {"", "app"}, d \in DependencyLists, pw \in pwls } :
            id \in ids }

TopManifests ==
    ManifestsOf(MergeAppNames, MergeLayerIds, { <<>>, << <<"/", "a">> >> })

\* manifests of lower layers: they differ from every top manifest
LowerManifests ==
    { m \in ManifestsOf({ <<"base">> }, { "i3" }, { << <<"/", "b">> >> }) :
        /\ Len(m.labels) = 1
        /\ m.dependencies = <<>>
        /\ m.app = "app" }

\* strings.LastIndex: the last index of sep in s, 0 when absent (Go: -1)
LastIndex(s, sep) ==
    IF \E i \in 1..Len(s) : s[i] = sep
    THEN CHOOSE i \in 1..Len(s) :
            /\ s[i] = sep
            /\ \A j \in (i + 1)..Len(s) : s[j] # sep
    ELSE 0

stripLayerIDFirstDash(layerName) ==
    SubSeq(layerName, 1, IndexOf(layerName, "-") - 1)

stripLayerID(layerName) ==
    SubSeq(layerName, 1, LastIndex(layerName, "-") - 1)

\* the loop of mergeManifests: the index of the last label named layer
LayerIndex(labels) ==
    IF \E i \in 1..Len(labels) : labels[i].name = "layer"
    THEN CHOOSE i \in 1..Len(labels) :
            /\ labels[i].name = "layer"
            /\ \A j \in (i + 1)..Len(labels) : labels[j].name # "layer"
    ELSE 0

mergeManifests(manifests) ==
    LET manifest == manifests[1]
        layerIndex == LayerIndex(manifest.labels)
    IN  [manifest EXCEPT
            !.dependencies = <<>>,
            !.labels = IF layerIndex # 0
                       THEN RemoveAt(manifest.labels, layerIndex)
                       ELSE manifest.labels,
            !.name = stripLayerID(manifest.name),
            !.pathWhitelist = <<>>]

MergeInit ==
    /\ SwIdle /\ WIdle /\ GiIdle /\ SqIdle /\ CvIdle /\ SynthIdle /\ PwlIdle
    /\ mm_manifests \in
          { <<top>> \o lower :
              top \in TopManifests, lower \in SeqsUpTo(LowerManifests, MaxLower) }
    /\ mm_result = NoManifest
    /\ mm_pc = "call"

\* writeSquashedImage: finalManifest := mergeManifests(manifests), written
\* with WriteManifest
MergeCall ==
    /\ mm_pc = "call"
    /\ mm_result' = mergeManifests(mm_manifests)
    /\ mm_pc' = "returned"
    /\ UNCHANGED mm_manifests
    /\ UNCHANGED NotMm

MergeNext == MergeCall

SpecMerge == MergeInit /\ [][MergeNext]_vars

----------------------------------------------------------------------------
(* The conversion driver: convertRun and SquashLayers *)

\* app names as sequences of pieces, "/" and "-" being pieces of their own
ConvAppNames == { <<"app1">>, <<"org", "/", "app1">>, <<"org", "-", "app1">> }

ReverseImagesNot(s) == s

\* utils.ReverseImages
ReverseImages(s) == [i \in 1..Len(s) |-> s[Len(s) + 1 - i]]

getSquashedFilename(appName) ==
    [i \in 1..Len(appName) |-> IF appName[i] = "/" THEN "-" ELSE appName[i]]
        \o <<".aci">>

\* the name ioutil.TempFile gives the squashed temp file
TempName == <<"docker2aci-squashedFile-">>

\* a directory is a set of <<file name, what the file holds>>
HasFile(dir, name) == \E f \in dir : f[1] = name
RemoveFile(dir, name) == { f \in dir : f[1] # name }
WriteFile(dir, name, data) == RemoveFile(dir, name) \cup { <<name, data>> }
DataOf(dir, name) == (CHOOSE f \in dir : f[1] = name)[2]

\* the ancestries GetImageInfo returns: the image first, its base last
ConvAncestries ==
    { a \in SeqsUpTo(LayerIds, MaxConvLayers) : Len(a) > 0 /\ NoDup(a) }

ConvertInit ==
    /\ SwIdle /\ WIdle /\ GiIdle /\ SqIdle /\ MmIdle /\ SynthIdle /\ PwlIdle
    /\ cv_outputDir \in
          SUBSET { <<getSquashedFilename(a), "old">> : a \in ConvAppNames }
    /\ cv_layersDir = "none"
    /\ cv_appName = <<>>
    /\ cv_ancestry = <<>>
    /\ cv_i = 0
    /\ cv_images = <<>>
    /\ cv_curPwl = <<>>
    /\ cv_manifest = NoLayerManifest
    /\ cv_calls = <<>>
    /\ cv_validated = FALSE
    /\ cv_err = "none"
    /\ cv_pc = "GetImageInfo"

\* convertRun returns the error of step; its deferred os.RemoveAll has run
ConvertFails(step) ==
    /\ cv_pc' = "error"
    /\ cv_err' = step
    /\ cv_layersDir' = IF cv_layersDir = "none" THEN "none" ELSE "removed"

ConvGetImageInfo ==
    /\ cv_pc = "GetImageInfo"
    /\ \E ancestry \in ConvAncestries, appName \in ConvAppNames :
          /\ cv_ancestry' = ancestry
          /\ cv_appName' = appName
    /\ cv_pc' = "TempDir"
    /\ UNCHANGED <<cv_outputDir, cv_layersDir, cv_i, cv_images, cv_validated, cv_err>>
    /\ UNCHANGED cvLoopVars
    /\ UNCHANGED NotCv

ConvGetImageInfoError ==
    /\ cv_pc = "GetImageInfo"
    /\ \E step \in {"getImageID", "getAncestry"} : ConvertFails(step)
    /\ UNCHANGED <<cv_outputDir, cv_appName, cv_ancestry, cv_i, cv_images, cv_validated>>
    /\ UNCHANGED cvLoopVars
    /\ UNCHANGED NotCv

ConvTempDir ==
    /\ cv_pc = "TempDir"
    /\ cv_layersDir' = "exists"
    /\ cv_i' = Len(cv_ancestry) - 1
    /\ cv_pc' = "BuildACI"
    /\ UNCHANGED <<cv_outputDir, cv_appName, cv_ancestry, cv_images, cv_validated, cv_err>>
    /\ UNCHANGED cvLoopVars
    /\ UNCHANGED NotCv

ConvTempDirError ==
    /\ cv_pc = "TempDir"
    /\ ConvertFails("TempDir")
    /\ UNCHANGED <<cv_outputDir, cv_appName, cv_ancestry, cv_i, cv_images, cv_validated>>
    /\ UNCHANGED cvLoopVars
    /\ UNCHANGED NotCv

\* the pathWhitelists BuildACI may return in the layer's manifest
ConvPwls ==
    { << <<"/", "a">> >>, << <<"/", "b">> >>, << <<"/", "a">>, <<"/", "b">> >> }

\* the per-layer ACI goes to layersOutputDir, never to outputDir
ConvBuildACI ==
    /\ cv_pc = "BuildACI"
    /\ cv_i >= 0
    /\ \E pwl \in ConvPwls :
          /\ cv_manifest' = [name |-> cv_ancestry[cv_i + 1], pathWhitelist |-> pwl]
          /\ cv_calls' = Append(cv_calls,
                                [call |-> "BuildACI", layerID |-> cv_ancestry[cv_i + 1],
                                 curPwl |-> cv_curPwl, pathWhitelist |-> pwl])
    /\ cv_pc' = "WriteACI"
    /\ UNCHANGED <<cv_outputDir, cv_layersDir, cv_appName, cv_ancestry, cv_i,
                   cv_images, cv_validated, cv_err, cv_curPwl>>
    /\ UNCHANGED NotCv

ConvBuildACIError ==
    /\ cv_pc = "BuildACI"
    /\ cv_i >= 0
    /\ ConvertFails("BuildACI")
    /\ UNCHANGED <<cv_outputDir, cv_appName, cv_ancestry, cv_i, cv_images, cv_validated>>
    /\ UNCHANGED cvLoopVars
    /\ UNCHANGED NotCv

ConvStoreWriteACI ==
    /\ cv_pc = "WriteACI"
    /\ cv_calls' = Append(cv_calls,
                          [call |-> "WriteACI", layerID |-> cv_manifest.name,
                           curPwl |-> <<>>, pathWhitelist |-> <<>>])
    /\ cv_images' = Append(cv_images,
                           [im |-> cv_manifest, key |-> cv_ancestry[cv_i + 1],
                            level |-> cv_i])
    /\ cv_curPwl' = cv_manifest.pathWhitelist
    /\ cv_i' = cv_i - 1
    /\ cv_pc' = "BuildACI"
    /\ UNCHANGED <<cv_outputDir, cv_layersDir, cv_appName, cv_ancestry,
                   cv_validated, cv_err, cv_manifest>>
    /\ UNCHANGED NotCv

ConvStoreWriteACIError ==
    /\ cv_pc = "WriteACI"
    /\ ConvertFails("WriteACI")
    /\ UNCHANGED <<cv_outputDir, cv_appName, cv_ancestry, cv_i, cv_images, cv_validated>>
    /\ UNCHANGED cvLoopVars
    /\ UNCHANGED NotCv

\* the loop is over: ReverseImages, then SquashLayers renders the list and
\* gets the manifests
SquashRender ==
    /\ cv_pc = "BuildACI"
    /\ cv_i < 0
    /\ cv_images' = ReverseImages(cv_images)
    /\ cv_pc' = "TempFile"
    /\ UNCHANGED <<cv_outputDir, cv_layersDir, cv_appName, cv_ancestry, cv_i,
                   cv_validated, cv_err>>
    /\ UNCHANGED cvLoopVars
    /\ UNCHANGED NotCv

SquashRenderError ==
    /\ cv_pc = "BuildACI"
    /\ cv_i < 0
    /\ ConvertFails("GetRenderedACIFromList")
    /\ cv_images' = ReverseImages(cv_images)
    /\ UNCHANGED <<cv_outputDir, cv_appName, cv_ancestry, cv_i, cv_validated>>
    /\ UNCHANGED cvLoopVars
    /\ UNCHANGED NotCv

SquashTempFile ==
    /\ cv_pc = "TempFile"
    /\ cv_outputDir' = WriteFile(cv_outputDir, TempName, "empty")
    /\ cv_pc' = "writeSquashedImage"
    /\ UNCHANGED <<cv_layersDir, cv_appName, cv_ancestry, cv_i, cv_images,
                   cv_validated, cv_err>>
    /\ UNCHANGED cvLoopVars
    /\ UNCHANGED NotCv

SquashTempFileError ==
    /\ cv_pc = "TempFile"
    /\ ConvertFails("TempFile")
    /\ UNCHANGED <<cv_outputDir, cv_appName, cv_ancestry, cv_i, cv_images, cv_validated>>
    /\ UNCHANGED cvLoopVars
    /\ UNCHANGED NotCv

SquashWrite ==
    /\ cv_pc = "writeSquashedImage"
    /\ cv_outputDir' = WriteFile(cv_outputDir, TempName, "squashed")
    /\ cv_pc' = "ValidateACI"
    /\ UNCHANGED <<cv_layersDir, cv_appName, cv_ancestry, cv_i, cv_images,
                   cv_validated, cv_err>>
    /\ UNCHANGED cvLoopVars
    /\ UNCHANGED NotCv

\* the deferred function of SquashLayers removes the temp file on an error
SquashWriteError ==
    /\ cv_pc = "writeSquashedImage"
    /\ ConvertFails("writeSquashedImage")
    /\ cv_outputDir' = RemoveFile(cv_outputDir, TempName)
    /\ UNCHANGED <<cv_appName, cv_ancestry, cv_i, cv_images, cv_validated>>
    /\ UNCHANGED cvLoopVars
    /\ UNCHANGED NotCv

SquashValidate ==
    /\ cv_pc = "ValidateACI"
    /\ cv_validated' = TRUE
    /\ cv_pc' = "Rename"
    /\ UNCHANGED <<cv_outputDir, cv_layersDir, cv_appName, cv_ancestry, cv_i,
                   cv_images, cv_err>>
    /\ UNCHANGED cvLoopVars
    /\ UNCHANGED NotCv

SquashValidateError ==
    /\ cv_pc = "ValidateACI"
    /\ ConvertFails("ValidateACI")
    /\ cv_outputDir' = RemoveFile(cv_outputDir, TempName)
    /\ UNCHANGED <<cv_appName, cv_ancestry, cv_i, cv_images, cv_validated>>
    /\ UNCHANGED cvLoopVars
    /\ UNCHANGED NotCv

SquashRename ==
    /\ cv_pc = "Rename"
    /\ cv_outputDir' =
          WriteFile(RemoveFile(cv_outputDir, TempName),
                    getSquashedFilename(cv_appName),
                    DataOf(cv_outputDir, TempName))
    /\ cv_pc' = "Close"
    /\ UNCHANGED <<cv_layersDir, cv_appName, cv_ancestry, cv_i, cv_images,
                   cv_validated, cv_err>>
    /\ UNCHANGED cvLoopVars
    /\ UNCHANGED NotCv

SquashRenameError ==
    /\ cv_pc = "Rename"
    /\ ConvertFails("Rename")
    /\ cv_outputDir' = RemoveFile(cv_outputDir, TempName)
    /\ UNCHANGED <<cv_appName, cv_ancestry, cv_i, cv_images, cv_validated>>
    /\ UNCHANGED cvLoopVars
    /\ UNCHANGED NotCv

\* SquashLayers returned no error: its deferred function closes the file
SquashClose ==
    /\ cv_pc = "Close"
    /\ cv_pc' = "returned"
    /\ cv_layersDir' = "removed"
    /\ UNCHANGED <<cv_outputDir, cv_appName, cv_ancestry, cv_i, cv_images,
                   cv_validated, cv_err>>
    /\ UNCHANGED cvLoopVars
    /\ UNCHANGED NotCv

\* the error of Close becomes the error of SquashLayers, after the rename
SquashCloseError ==
    /\ cv_pc = "Close"
    /\ ConvertFails("Close")
    /\ UNCHANGED <<cv_outputDir, cv_appName, cv_ancestry, cv_i, cv_images, cv_validated>>
    /\ UNCHANGED cvLoopVars
    /\ UNCHANGED NotCv

ConvertNext ==
    \/ ConvGetImageInfo
    \/ ConvGetImageInfoError
    \/ ConvTempDir
    \/ ConvTempDirError
    \/ ConvBuildACI
    \/ ConvBuildACIError
    \/ ConvStoreWriteACI
    \/ ConvStoreWriteACIError
    \/ SquashRender
    \/ SquashRenderError
    \/ SquashTempFile
    \/ SquashTempFileError
    \/ SquashWrite
    \/ SquashWriteError
    \/ SquashValidate
    \/ SquashValidateError
    \/ SquashRename
    \/ SquashRenameError
    \/ SquashClose
    \/ SquashCloseError

SpecConvert == ConvertInit /\ [][ConvertNext]_vars

----------------------------------------------------------------------------
(* Manifest synthesis: getExecCommand and utils.Quote *)

\* a string is the sequence of its characters
ShString == <<"/", "b", "i", "n", "/", "s", "h">>
DashC == <<"-", "c">>

\* the words an entrypoint or a cmd is made of: the empty string, a relative
\* and an absolute path, words with a space, a quote and a backslash
ExecWords ==
    { <<>>, <<"a">>, <<"/", "a">>, <<"a", " ">>, <<"\"">>, <<"\\">> }

\* an entrypoint or cmd of the image json: absent (nil) or a list
ExecLists ==
    { NilSlice } \cup { Slice(l) : l \in SeqsUpTo(ExecWords, MaxArgs) }

\* append(a, b...)
AppendSliceCmdFirst(a, b) ==
    IF b.s = <<>> THEN a ELSE Slice(b.s \o a.s)

AppendSlice(a, b) ==
    IF b.s = <<>> THEN a ELSE Slice(a.s \o b.s)

\* fmt.Sprintf("%q", s): the characters between double quotes, a double
\* quote and a backslash escaped by a backslash
RECURSIVE QuoteChars(_)
QuoteChars(str) ==
    IF str = <<>> THEN <<>>
    ELSE (IF Head(str) \in {"\"", "\\"} THEN <<"\\", Head(str)>> ELSE <<Head(str)>>)
            \o QuoteChars(Tail(str))

\* utils.Quote
Quote(l) == [i \in 1..Len(l) |-> <<"\"">> \o QuoteChars(l[i]) \o <<"\"">>]

\* strings.Join(a, sep)
RECURSIVE Join(_, _)
Join(a, sep) ==
    IF a = <<>> THEN <<>>
    ELSE IF Len(a) = 1 THEN a[1]
    ELSE a[1] \o sep \o Join(Tail(a), sep)

\* filepath.IsAbs
IsAbs(str) == str # <<>> /\ str[1] = "/"

getExecCommand(entrypoint, cmd) ==
    IF entrypoint.isNil /\ cmd.isNil THEN NilSlice
    ELSE LET command == AppendSlice(entrypoint, cmd)
         IN  IF Len(command.s) > 0 /\ ~IsAbs(command.s[1])
             THEN Slice(<<ShString, DashC, Join(Quote(command.s), <<" ">>)>>)
             ELSE command

ExecInit ==
    /\ SwIdle /\ WIdle /\ GiIdle /\ SqIdle /\ MmIdle /\ CvIdle /\ VoIdle /\ GmIdle /\ PwlIdle
    /\ ex_entrypoint \in ExecLists
    /\ ex_cmd \in ExecLists
    /\ ex_exec = NilSlice
    /\ ex_pc = "call"

\* GenerateManifest: exec := getExecCommand(dockerConfig.Entrypoint,
\* dockerConfig.Cmd)
ExecCall ==
    /\ ex_pc = "call"
    /\ ex_exec' = getExecCommand(ex_entrypoint, ex_cmd)
    /\ ex_pc' = "returned"
    /\ UNCHANGED <<ex_entrypoint, ex_cmd>>
    /\ UNCHANGED NotEx

ExecNext == ExecCall

SpecExec == ExecInit /\ [][ExecNext]_vars

----------------------------------------------------------------------------
(* Manifest synthesis: convertVolumesToMPs *)

\* the volume paths of an image json, as sequences of characters; the name
\* "volume" is one piece
VolumePaths ==
    { <<"/", "a">>, <<"/", "a", "/">>, <<"/", "A">>, <<"/", "a", "-", "1">>,
      <<"/", "b">> }

\* filepath.Join("volume", p) of an absolute path p: one "/" between the
\* two, no "/" at the end
JoinVolume(p) ==
    <<"volume">> \o (IF p[Len(p)] = "/" THEN SubSeq(p, 1, Len(p) - 1) ELSE p)

\* strings.ToLower and the replacement of the characters an AC name may not
\* hold by "-"
SanitizeChar(c) ==
    CASE c = "A" -> "a"
      [] c = "/" -> "-"
      [] OTHER -> c

\* types.SanitizeACName of a name that neither starts nor ends with a
\* character to replace
SanitizeACName(n) == [i \in 1..Len(n) |-> SanitizeChar(n[i])]

\* fmt.Sprintf("%s-%d", sn, i) for a one-digit i
Suffixed(sn, i) ==
    sn \o <<"-", CASE i = 1 -> "1" [] i = 2 -> "2" [] i = 3 -> "3" [] OTHER -> "4">>

\* dup[sn], 0 when sn is no key of dup
DupCount(dup, sn) == IF sn \in DOMAIN dup THEN dup[sn] ELSE 0

\* the loop of convertVolumesToMPs over the volumes in the order visited:
\* mps and dup after it
RECURSIVE VolumeLoop(_, _, _)
VolumeLoop(order, mps, dup) ==
    IF order = <<>> THEN mps
    ELSE LET p == Head(order)
             sn == SanitizeACName(JoinVolume(p))
             i == DupCount(dup, sn)
             name == IF i > 0 THEN Suffixed(sn, i) ELSE sn
             newDup == [k \in DOMAIN dup \cup {sn} |->
                            IF k = sn THEN i + 1 ELSE dup[k]]
         IN  VolumeLoop(Tail(order), Append(mps, [name |-> name, path |-> p]), newDup)

\* the order of bytes among the characters of mount point names
NameCharOrder == <<"-", "1", "2", "3", "4", "a", "b", "volume">>
NameCharRank(c) == CHOOSE i \in 1..Len(NameCharOrder) : NameCharOrder[i] = c

\* string comparison: a < b
RECURSIVE StringLess(_, _)
StringLess(a, b) ==
    IF b = <<>> THEN FALSE
    ELSE IF a = <<>> THEN TRUE
    ELSE IF Head(a) = Head(b) THEN StringLess(Tail(a), Tail(b))
    ELSE NameCharRank(Head(a)) < NameCharRank(Head(b))

\* appcVolSorter.Less
VolLess(x, y) == StringLess(x.name, y.name)

\* what sort.Sort(appcVolSorter(mps)) may leave: the same mount points, none
\* before one that is less
SortedMountPoints(mps) ==
    { [i \in 1..Len(mps) |-> mps[perm[i]]] :
        perm \in { f \in [1..Len(mps) -> 1..Len(mps)] :
                     /\ \A i, j \in 1..Len(mps) : f[i] = f[j] => i = j
                     /\ \A i, j \in 1..Len(mps) :
                           i < j => ~VolLess(mps[f[j]], mps[f[i]]) } }

\* the orders in which a range over a map of the volumes may visit them
VisitOrders(volumes) ==
    { o \in [1..Cardinality(volumes) -> volumes] : NoDup(o) }

VolumesInit ==
    /\ SwIdle /\ WIdle /\ GiIdle /\ SqIdle /\ MmIdle /\ CvIdle /\ ExIdle /\ GmIdle /\ PwlIdle
    /\ vo_dockerVolumes \in { v \in SUBSET VolumePaths : Cardinality(v) <= MaxVolumes }
    /\ vo_order \in VisitOrders(vo_dockerVolumes)
    /\ vo_mountPoints = <<>>
    /\ vo_pc = "call"

\* GenerateManifest: app.MountPoints, err = convertVolumesToMPs(
\* dockerConfig.Volumes)
VolumesCall ==
    /\ vo_pc = "call"
    /\ vo_mountPoints' \in SortedMountPoints(VolumeLoop(vo_order, <<>>, <<>>))
    /\ vo_pc' = "returned"
    /\ UNCHANGED <<vo_dockerVolumes, vo_order>>
    /\ UNCHANGED NotVo

VolumesNext == VolumesCall

SpecVolumes == VolumesInit /\ [][VolumesNext]_vars

----------------------------------------------------------------------------
(* Manifest synthesis: GenerateManifest *)

GenAppNames == { <<"app">>, <<"org", "/", "app">>, <<"App">> }

GenLayerIds == { "i1", "i2" }

\* entrypoint and cmd of a config: absent, the empty list, an absolute and a
\* relative command
GenExecLists ==
    { NilSlice, Slice(<<>>), Slice(<< <<"/", "a">> >>), Slice(<< <<"a">> >>) }

\* dockerConfig: nil, or its fields
NilConfig ==
    [isNil |-> TRUE, Entrypoint |-> NilSlice, Cmd |-> NilSlice, Volumes |-> {},
     ExposedPorts |-> {}, Env |-> NilSlice]

GenConfigs ==
    { NilConfig } \cup
    { [isNil |-> FALSE, Entrypoint |-> ep, Cmd |-> cmd, Volumes |-> v,
       ExposedPorts |-> ports, Env |-> NilSlice] :
        ep \in GenExecLists, cmd \in GenExecLists,
        v \in { {}, { <<"/", "a">> } }, ports \in { {}, {"80"}, {"x"} } }

\* manifest.DockerImageData
GenLayerData ==
    [ID : GenLayerIds, Parent : {"", "i2", "i3"}, OS : {"", "linux"},
     Architecture : {"", "amd64"}, Author : {"", "me"},
     Created : {"epoch", "t1"}, Comment : {"", "c"}, Config : GenConfigs]

NoLayerData ==
    [ID |-> "", Parent |-> "", OS |-> "", Architecture |-> "", Author |-> "",
     Created |-> "epoch", Comment |-> "", Config |-> NilConfig]

\* no app section
NilApp ==
    [isNil |-> TRUE, Exec |-> NilSlice, User |-> "", Group |-> "",
     Environment |-> <<>>, MountPoints |-> <<>>, Ports |-> <<>>]

\* GenerateManifest returned nil
NilManifest ==
    [isNil |-> TRUE, Name |-> <<>>, ACVersion |-> "", ACKind |-> "",
     Labels |-> <<>>, Annotations |-> <<>>, App |-> NilApp,
     Dependencies |-> <<>>]

\* types.SanitizeACIdentifier of "/" + appName + "-" + id: lower case, the
\* "/" at the start cut off
SanitizeACIdentifier(s) ==
    LET lower == [i \in 1..Len(s) |-> IF s[i] = "App" THEN "app" ELSE s[i]]
    IN  IF lower # <<>> /\ lower[1] = "/" THEN Tail(lower) ELSE lower

\* the name of the ACI of layer id of the app
LayerImageName(appName, id) ==
    SanitizeACIdentifier(<<"/">> \o appName \o <<"-", id>>)

\* labels and parentLabels
GenLabels(layerData) ==
    << [name |-> "layer", value |-> layerData.ID],
       [name |-> "version", value |-> "latest"] >>
    \o (IF layerData.OS # "" THEN << [name |-> "os", value |-> layerData.OS] >>
        ELSE <<>>)
    \o (IF layerData.OS # "" /\ layerData.Architecture # ""
        THEN << [name |-> "arch", value |-> layerData.Architecture] >>
        ELSE <<>>)

GenParentLabels(layerData) ==
    (IF layerData.OS # "" THEN << [name |-> "os", value |-> layerData.OS] >>
     ELSE <<>>)
    \o (IF layerData.OS # "" /\ layerData.Architecture # ""
        THEN << [name |-> "arch", value |-> layerData.Architecture] >>
        ELSE <<>>)

\* annotations at the time genManifest.Annotations is assigned
GenAnnotations(layerData, appName) ==
    (IF layerData.Author # ""
     THEN << [name |-> "authors", value |-> layerData.Author] >> ELSE <<>>)
    \o (IF layerData.Created # "epoch"
        THEN << [name |-> "created", value |-> layerData.Created] >> ELSE <<>>)
    \o (IF layerData.Comment # ""
        THEN << [name |-> "docker-comment", value |-> layerData.Comment] >> ELSE <<>>)
    \o << [name |-> "appc.io/docker/repository", value |-> appName],
          [name |-> "appc.io/docker/imageid", value |-> layerData.ID],
          [name |-> "appc.io/docker/parentimageid", value |-> layerData.Parent] >>

\* the local annotations when GenerateManifest returns: the parent branch
\* appends the tag to the local slice
GenLocalAnnotations(layerData, appName) ==
    GenAnnotations(layerData, appName)
    \o (IF layerData.Parent # ""
        THEN << [name |-> "appc.io/docker/tag", value |-> "latest"] >> ELSE <<>>)

\* convertPorts: parseDockerPort fails on a port that is no number
PortsParse(ports) == "x" \notin ports

convertPorts(ports) ==
    IF ports = {} THEN <<>>
    ELSE << [name |-> "80", protocol |-> "tcp", port |-> "80"] >>

\* the index of the first "=" of an env entry, 0 when it has none
FirstEq(v) ==
    IF \E i \in 1..Len(v) : v[i] = "="
    THEN CHOOSE i \in 1..Len(v) : v[i] = "=" /\ \A j \in 1..(i - 1) : v[j] # "="
    ELSE 0

\* strings.SplitN(v, "=", 2): the entry itself when it has no "=", what is
\* before and what is after the first "=" otherwise
SplitN2(v) ==
    IF FirstEq(v) = 0 THEN <<v>>
    ELSE <<SubSeq(v, 1, FirstEq(v) - 1), SubSeq(v, FirstEq(v) + 1, Len(v))>>

\* types.Environment.Set: the variable of that name gets the value, a new
\* variable is appended when there is none
EnvSet(env, name, value) ==
    IF \E i \in 1..Len(env) : env[i].name = name
    THEN [i \in 1..Len(env) |->
            IF env[i].name = name THEN [name |-> name, value |-> value] ELSE env[i]]
    ELSE Append(env, [name |-> name, value |-> value])

\* the loop over dockerConfig.Env, for entries that all have two parts
RECURSIVE EnvLoop(_, _)
EnvLoop(env, entries) ==
    IF entries = <<>> THEN env
    ELSE EnvLoop(EnvSet(env, SplitN2(entries[1])[1], SplitN2(entries[1])[2]),
                 Tail(entries))

\* parts[1] is read of an entry that has one part: index out of range
EnvPanics(entries) == \E i \in 1..Len(entries) : Len(SplitN2(entries[i])) < 2

\* the app section: nil without a config or when getExecCommand returns nil
GenApp(config, mountPoints) ==
    LET exec == getExecCommand(config.Entrypoint, config.Cmd)
    IN  IF config.isNil \/ exec.isNil THEN NilApp
        ELSE [isNil |-> FALSE, Exec |-> exec, User |-> "0", Group |-> "0",
              Environment |-> EnvLoop(<<>>, config.Env.s),
              MountPoints |-> mountPoints, Ports |-> convertPorts(config.ExposedPorts)]

\* the parent branch
GenDependencies(layerData, appName) ==
    IF layerData.Parent # ""
    THEN << [imageName |-> LayerImageName(appName, layerData.Parent),
             labels |-> GenParentLabels(layerData)] >>
    ELSE <<>>

\* GenerateManifest panics in the loop over the env entries
GenPanics(layerData) ==
    /\ ~layerData.Config.isNil
    /\ ~getExecCommand(layerData.Config.Entrypoint, layerData.Config.Cmd).isNil
    /\ EnvPanics(layerData.Config.Env.s)

\* GenerateManifest fails: convertPorts returns an error
GenFails(layerData) ==
    /\ ~layerData.Config.isNil
    /\ ~getExecCommand(layerData.Config.Entrypoint, layerData.Config.Cmd).isNil
    /\ ~EnvPanics(layerData.Config.Env.s)
    /\ ~PortsParse(layerData.Config.ExposedPorts)

\* the manifest GenerateManifest returns
GenManifestOf(layerData, appName, mountPoints) ==
    [isNil |-> FALSE,
     Name |-> LayerImageName(appName, layerData.ID),
     ACVersion |-> schemaVersion,
     ACKind |-> "ImageManifest",
     Labels |-> GenLabels(layerData),
     Annotations |-> GenAnnotations(layerData, appName),
     App |-> GenApp(layerData.Config, mountPoints),
     Dependencies |-> GenDependencies(layerData, appName)]

GenerateInit ==
    /\ SwIdle /\ WIdle /\ GiIdle /\ SqIdle /\ MmIdle /\ CvIdle /\ ExIdle /\ VoIdle /\ PwlIdle
    /\ gm_layerData \in GenLayerData
    /\ gm_appName \in GenAppNames
    /\ gm_manifest = NilManifest
    /\ gm_err = "none"
    /\ gm_pc = "call"

GenerateManifest ==
    /\ gm_pc = "call"
    /\ ~GenPanics(gm_layerData)
    /\ ~GenFails(gm_layerData)
    /\ \E order \in VisitOrders(gm_layerData.Config.Volumes) :
          \E mps \in SortedMountPoints(VolumeLoop(order, <<>>, <<>>)) :
              gm_manifest' = GenManifestOf(gm_layerData, gm_appName, mps)
    /\ gm_pc' = "returned"
    /\ UNCHANGED <<gm_layerData, gm_appName, gm_err>>
    /\ UNCHANGED NotGm

GenerateManifestError ==
    /\ gm_pc = "call"
    /\ GenFails(gm_layerData)
    /\ gm_err' = "convertPorts"
    /\ gm_pc' = "returned"
    /\ UNCHANGED <<gm_layerData, gm_appName, gm_manifest>>
    /\ UNCHANGED NotGm

GenerateNext ==
    \/ GenerateManifest
    \/ GenerateManifestError

SpecGenerate == GenerateInit /\ [][GenerateNext]_vars

----------------------------------------------------------------------------
(* Specification SpecEnv: GenerateManifest on layers with env entries *)

\* longest env list
MaxEnv == 2

\* env entries, as their characters: K=V, K=, K=V=W, L=V, K and the empty
\* string
EnvEntries ==
    { <<"K", "=", "V">>, <<"K", "=">>, <<"K", "=", "V", "=", "W">>,
      <<"L", "=", "V">>, <<"K">>, <<>> }

EnvLists == { NilSlice } \cup { Slice(l) : l \in SeqsUpTo(EnvEntries, MaxEnv) }

\* configs with and without an exec, with ports that parse and that do not
EnvConfigs ==
    { [isNil |-> FALSE, Entrypoint |-> ep, Cmd |-> cmd, Volumes |-> {},
       ExposedPorts |-> ports, Env |-> env] :
        ep \in { NilSlice, Slice(<< <<"/", "a">> >>) },
        cmd \in { NilSlice, Slice(<< <<"a">> >>) },
        ports \in { {}, {"80"}, {"x"} }, env \in EnvLists }

EnvInit ==
    /\ SwIdle /\ WIdle /\ GiIdle /\ SqIdle /\ MmIdle /\ CvIdle /\ ExIdle /\ VoIdle /\ PwlIdle
    /\ gm_layerData \in { [NoLayerData EXCEPT !.ID = "i1", !.Config = c] : c \in EnvConfigs }
    /\ gm_appName = <<"app">>
    /\ gm_manifest = NilManifest
    /\ gm_err = "none"
    /\ gm_pc = "call"

\* env.Set(parts[0], parts[1]) on an entry without "=": the goroutine panics
\* and GenerateManifest does not return
GenerateManifestPanic ==
    /\ gm_pc = "call"
    /\ GenPanics(gm_layerData)
    /\ gm_pc' = "panic"
    /\ UNCHANGED <<gm_layerData, gm_appName, gm_manifest, gm_err>>
    /\ UNCHANGED NotGm

EnvNext ==
    \/ GenerateManifest
    \/ GenerateManifestError
    \/ GenerateManifestPanic

SpecEnv == EnvInit /\ [][EnvNext]_vars

----------------------------------------------------------------------------
(* Specification SpecTerminate: writeACI with the first loop of            *)
(* subtractWhiteouts taken one iteration at a time                         *)

\* the entries a layer tar is drawn from, among them an entry named "."
\* and one whose name leaves rootfs
TermEntries ==
    { [name |-> <<".", "">>,    typeflag |-> "dir", linkname |-> <<>>],
      [name |-> <<".">>,        typeflag |-> "dir", linkname |-> <<>>],
      [name |-> <<"..", "b">>,  typeflag |-> "reg", linkname |-> <<>>],
      [name |-> <<"a", "">>,    typeflag |-> "dir", linkname |-> <<>>],
      [name |-> <<"a", "b">>,   typeflag |-> "reg", linkname |-> <<>>],
      [name |-> <<".wh.a">>,    typeflag |-> "reg", linkname |-> <<>>],
      [name |-> <<"dev">>,      typeflag |-> "reg", linkname |-> <<>>] }

TerminateInit ==
    /\ SwIdle /\ GiIdle /\ SqIdle /\ MmIdle /\ CvIdle /\ SynthIdle /\ AlIdle
    /\ SlIdle
    /\ w_layer = 0
    /\ w_t = NoEntry
    /\ w_err = "none"
    /\ w_validTar \in BOOLEAN
    /\ w_inherited \in { s \in SeqsUpTo(InheritedPaths, MaxInherited) : NoDup(s) }
    /\ w_curPwl = w_inherited
    /\ w_fileMap = {}
    /\ w_whiteouts = <<>>
    /\ w_tar = <<RootfsHeader>>
    /\ w_walked = 0
    /\ w_manifestPwl = <<>>
    /\ w_pc = "walk"

\* the end of the walk: subtractWhiteouts(curPwl, whiteouts) is called
SubtractEnter ==
    /\ w_pc = "walk"
    /\ w_pc' = "outer"
    /\ sl_idx' = 0
    /\ sl_matchPaths' = <<>>
    /\ UNCHANGED sl_curPath
    /\ UNCHANGED <<w_layer, w_validTar, w_inherited, w_curPwl, w_fileMap, w_whiteouts,
                   w_tar, w_walked, w_manifestPwl, w_t, w_err>>
    /\ UNCHANGED NotWSl

\* for _, path := range pathWhitelist: curPath := path
SubtractNextPath ==
    /\ w_pc = "outer" /\ sl_idx < Len(w_curPwl)
    /\ sl_idx' = sl_idx + 1
    /\ sl_curPath' = w_curPwl[sl_idx + 1]
    /\ w_pc' = "inner"
    /\ UNCHANGED sl_matchPaths
    /\ UNCHANGED <<w_layer, w_validTar, w_inherited, w_curPwl, w_fileMap, w_whiteouts,
                   w_tar, w_walked, w_manifestPwl, w_t, w_err>>
    /\ UNCHANGED NotWSl

\* for curPath != "/": curPath is compared with the whiteouts
SubtractWalkUp ==
    /\ w_pc = "inner" /\ sl_curPath # Root
    /\ sl_matchPaths' =
          sl_matchPaths \o WhiteoutHits(w_curPwl[sl_idx], sl_curPath, w_whiteouts)
    /\ w_pc' = "dir"
    /\ UNCHANGED <<sl_idx, sl_curPath>>
    /\ UNCHANGED <<w_layer, w_validTar, w_inherited, w_curPwl, w_fileMap, w_whiteouts,
                   w_tar, w_walked, w_manifestPwl, w_t, w_err>>
    /\ UNCHANGED NotWSl

\* curPath = filepath.Dir(curPath), and back to the test of the loop
SubtractDir ==
    /\ w_pc = "dir"
    /\ sl_curPath' = Dir(sl_curPath)
    /\ w_pc' = "inner"
    /\ UNCHANGED <<sl_idx, sl_matchPaths>>
    /\ UNCHANGED <<w_layer, w_validTar, w_inherited, w_curPwl, w_fileMap, w_whiteouts,
                   w_tar, w_walked, w_manifestPwl, w_t, w_err>>
    /\ UNCHANGED NotWSl

\* curPath == "/": the walk of this path is over
SubtractPathDone ==
    /\ w_pc = "inner" /\ sl_curPath = Root
    /\ w_pc' = "outer"
    /\ UNCHANGED slVars
    /\ UNCHANGED <<w_layer, w_validTar, w_inherited, w_curPwl, w_fileMap, w_whiteouts,
                   w_tar, w_walked, w_manifestPwl, w_t, w_err>>
    /\ UNCHANGED NotWSl

\* the range is over: the second loop and the sort of subtractWhiteouts, then
\* the stdio symlinks and the manifest of writeACI
SubtractReturn ==
    /\ w_pc = "outer" /\ sl_idx = Len(w_curPwl)
    /\ LET newPwl == SortPaths(RemoveMatches(w_curPwl, sl_matchPaths))
       IN /\ w_manifestPwl' = writeStdioSymlinks(w_fileMap, newPwl)
          /\ w_tar' = w_tar
                \o SymlinkHeaders(MissingSymlinks(StdioSymlinks, w_fileMap))
                \o <<ManifestHeader>>
    /\ w_pc' = "returned"
    /\ UNCHANGED slVars
    /\ UNCHANGED <<w_layer, w_validTar, w_inherited, w_curPwl, w_fileMap, w_whiteouts,
                   w_walked, w_t, w_err>>
    /\ UNCHANGED NotWSl

TerminateNext ==
    \/ \E e \in TermEntries :
          WalkDotEntry(e) \/ WalkDevError(e) \/ WalkWhiteout(e) \/ WalkWrite(e)
    \/ WalkReadError
    \/ SubtractEnter
    \/ SubtractNextPath
    \/ SubtractWalkUp
    \/ SubtractDir
    \/ SubtractPathDone
    \/ SubtractReturn

\* writeACI runs on one goroutine: a step that can be taken is taken
SpecTerminate == TerminateInit /\ [][TerminateNext]_vars /\ WF_vars(TerminateNext)

----------------------------------------------------------------------------
(* Specification SpecAlias: the pathWhitelist slices of convertRun and the  *)
(* arrays behind them.  A slice is the number of its array (0 for nil) and  *)
(* its length; its capacity is the length of the array.                     *)

\* the spare capacity append may give a new array is not more than this
MaxSpare == 1
\* longest layer tar of this specification
MaxAliasEntries == 2

\* the elements of a slice
View(arrays, sl) ==
    IF sl.arr = 0 THEN <<>> ELSE SubSeq(arrays[sl.arr], 1, sl.len)

Cap(arrays, sl) == IF sl.arr = 0 THEN 0 ELSE Len(arrays[sl.arr])

\* append(sl, p): in place when the capacity allows it, into a new array of
\* the length needed and spare zero strings otherwise
AppendElem(m, p, spare) ==
    IF m.sl.len < Cap(m.arrays, m.sl)
    THEN [arrays |-> [m.arrays EXCEPT ![m.sl.arr][m.sl.len + 1] = p],
          sl |-> [m.sl EXCEPT !.len = m.sl.len + 1]]
    ELSE [arrays |-> Append(m.arrays,
                        Append(View(m.arrays, m.sl), p) \o [i \in 1..spare |-> <<>>]),
          sl |-> [arr |-> Len(m.arrays) + 1, len |-> m.sl.len + 1]]

\* if !utils.In(pwl, p) { pwl = append(pwl, p) }
AppendIfAbsent(m, p, spare) ==
    IF In(View(m.arrays, m.sl), p) THEN m ELSE AppendElem(m, p, spare)

\* the first Len(v) elements of the array of the slice are overwritten with
\* v, which is not longer than the slice; the slice gets the length of v
StoreView(m, v) ==
    IF m.sl.arr = 0 THEN m
    ELSE [arrays |-> [m.arrays EXCEPT ![m.sl.arr] =
                        v \o SubSeq(m.arrays[m.sl.arr], Len(v) + 1,
                                    Len(m.arrays[m.sl.arr]))],
          sl |-> [m.sl EXCEPT !.len = Len(v)]]

\* pathWhitelist = append(pathWhitelist[:idx], pathWhitelist[idx+1:]...)
RemoveMatchInPlace(m, matchPath) ==
    StoreView(m, RemoveMatch(View(m.arrays, m.sl), matchPath))

RECURSIVE RemoveMatchesInPlace(_, _)
RemoveMatchesInPlace(m, matchPaths) ==
    IF matchPaths = <<>> THEN m
    ELSE RemoveMatchesInPlace(RemoveMatchInPlace(m, matchPaths[1]), Tail(matchPaths))

\* subtractWhiteouts on the slice it is given
subtractWhiteoutsInPlace(m, whiteouts) ==
    LET removed == RemoveMatchesInPlace(m, MatchPaths(View(m.arrays, m.sl), whiteouts))
    IN StoreView(removed, SortPaths(View(removed.arrays, removed.sl)))

\* the walk of writeACI over the layer tar: curPwl, whiteouts and fileMap
RECURSIVE WalkInPlace(_, _, _)
WalkInPlace(st, tar, spare) ==
    IF tar = <<>> THEN st
    ELSE LET e == tar[1]
             next ==
                IF IsDotEntry(e) THEN st
                ELSE IF IsWhiteout(e)
                THEN [st EXCEPT !.fileMap = @ \cup {AbsolutePath(e)},
                                !.whiteouts = Append(@, StripFirstWh(AbsolutePath(e)))]
                ELSE [st EXCEPT !.fileMap = @ \cup {AbsolutePath(e)},
                                !.m = AppendIfAbsent(@, AbsolutePath(e), spare)]
         IN WalkInPlace(next, Tail(tar), spare)

\* writeStdioSymlinks on the slice it is given
RECURSIVE SymlinksInPlace(_, _, _)
SymlinksInPlace(m, links, spare) ==
    IF links = <<>> THEN m
    ELSE SymlinksInPlace(AppendIfAbsent(m, links[1].linkname, spare), Tail(links), spare)

\* writeACI: the arrays it leaves and the slice manifest.PathWhitelist
writeACIInPlace(arrays, curPwl, tar, spare) ==
    LET walked == WalkInPlace([m |-> [arrays |-> arrays, sl |-> curPwl],
                               whiteouts |-> <<>>, fileMap |-> {}], tar, spare)
        newPwl == subtractWhiteoutsInPlace(walked.m, walked.whiteouts)
    IN SymlinksInPlace(newPwl, MissingSymlinks(StdioSymlinks, walked.fileMap), spare)

\* the entries the layer tars of this specification are drawn from
AliasEntries ==
    { [name |-> <<"a", "b">>,     typeflag |-> "reg", linkname |-> <<>>],
      [name |-> <<"b">>,          typeflag |-> "reg", linkname |-> <<>>],
      [name |-> <<"a", ".wh.b">>, typeflag |-> "reg", linkname |-> <<>>],
      [name |-> <<".wh.b">>,      typeflag |-> "reg", linkname |-> <<>>] }

\* convertRun before its loop: var images, var curPwl []string
AliasInit ==
    /\ SwIdle /\ WIdle /\ GiIdle /\ SqIdle /\ MmIdle /\ CvIdle /\ SynthIdle /\ SlIdle
    /\ al_arrays = <<>>
    /\ al_images = <<>>
    /\ al_curPwl = [arr |-> 0, len |-> 0]
    /\ al_pc = "loop"

\* one turn of the loop of convertRun: BuildACI with curPwl, the image is
\* appended, curPwl = manifest.PathWhitelist
AliasBuildLayer(tar, spare) ==
    /\ al_pc = "loop" /\ Len(al_images) < MaxChain
    /\ LET built == writeACIInPlace(al_arrays, al_curPwl, tar, spare)
       IN /\ al_arrays' = built.arrays
          /\ al_images' = Append(al_images,
                                 [pathWhitelist |-> built.sl,
                                  returned |-> View(built.arrays, built.sl)])
          /\ al_curPwl' = built.sl
    /\ UNCHANGED al_pc
    /\ UNCHANGED NotAl

\* the loop is over: the images are reversed and handed to the renderer
AliasRender ==
    /\ al_pc = "loop" /\ al_images # <<>>
    /\ al_images' = ReverseImages(al_images)
    /\ al_pc' = "rendered"
    /\ UNCHANGED <<al_arrays, al_curPwl>>
    /\ UNCHANGED NotAl

AliasNext ==
    \/ \E tar \in SeqsUpTo(AliasEntries, MaxAliasEntries), spare \in 0..MaxSpare :
          AliasBuildLayer(tar, spare)
    \/ AliasRender

SpecAlias == AliasInit /\ [][AliasNext]_vars

----------------------------------------------------------------------------
(* Claims *)

\* a is p or a directory above p
IsPrefix(a, p) == Len(a) <= Len(p) /\ SubSeq(p, 1, Len(a)) = a

\* the absolute paths of the headers written under rootfs/
RootfsPathsOf(tar) ==
    { TrimRootfs(tar[i].name) :
        i \in { k \in 1..Len(tar) : Len(tar[k].name) > 1 /\ tar[k].name[1] = "rootfs" } }

\* C1: in the ACI writeACI returns, the absolute path of every entry written
\* under rootfs/ is in the pathWhitelist of the manifest written with it.
C1_RootfsEntriesInPwl ==
    w_pc = "returned" =>
        \A p \in RootfsPathsOf(w_tar) : In(w_manifestPwl, p)

\* C2: the PWL subtractWhiteouts returns holds no path that is a whiteout or
\* lies below one, whatever the number of times the path came in.
C2_NoWhiteoutedPath ==
    sw_pc = "returned" =>
        \A i \in 1..Len(sw_result) :
            \A j \in 1..Len(sw_whiteouts) :
                ~IsPrefix(sw_whiteouts[j], sw_result[i])

\* C2, its case: a path that came in twice lies two levels below a whiteout,
\* another path is not covered, and the call returned.
C2_Witness ==
    /\ sw_pc = "returned"
    /\ sw_pathWhitelist = << <<"/", "a", "a", "b">>, <<"/", "b">>, <<"/", "a", "a", "b">> >>
    /\ sw_whiteouts = << <<"/", "a">> >>
    /\ sw_result = << <<"/", "b">> >>

\* the archive holds a well-formed <id>/json
HasJson(id) == a_json[id].state = "ok"

\* C7: when GetImageInfo returns an ancestry, the list is non-empty, starts
\* at the id resolved from repositories, every later element is the json
\* parent of the one before it, the json of the last element exists and has
\* an empty parent, and no id occurs twice.
C7_AncestryChain ==
    gi_pc = "returned" =>
        /\ gi_ancestry # <<>>
        /\ gi_ancestry[1] = gi_imageID
        /\ \A i \in 2..Len(gi_ancestry) :
              /\ HasJson(gi_ancestry[i - 1])
              /\ a_json[gi_ancestry[i - 1]].parent = gi_ancestry[i]
        /\ HasJson(gi_ancestry[Len(gi_ancestry)])
        /\ a_json[gi_ancestry[Len(gi_ancestry)]].parent = ""
        /\ NoDup(gi_ancestry)

\* C8: a cycle of parent links ends the building of the ancestry with an
\* error: the loop is never about to append an id it has appended already.
C8_CycleIsError ==
    gi_pc = "getAncestry" => ~In(gi_ancestry, gi_curImgID)

\* C9: building the ancestry never returns a list holding an id whose
\* <id>/json is missing from the archive.
C9_MissingJsonIsError ==
    gi_pc = "returned" =>
        \A i \in 1..Len(gi_ancestry) : a_json[gi_ancestry[i]].state # "missing"

\* getImageID has run
Resolved == gi_pc \in {"getAncestry", "returned", "error"} /\ gi_err # ErrLayerJson

\* C10: image-id resolution.  One app: its name with the id of tag latest,
\* else with the id of its only tag, else an error.  Two or more apps: an
\* error listing every app name.  No app, or no repositories entry: an
\* error.  An id returned is a value of the chosen app's tag map.
C10_ImageIdResolution ==
    Resolved =>
        LET apps == DOMAIN a_repos
            ok == gi_err = NoError
        IN /\ (~a_hasRepos \/ apps = {}) => ~ok
           /\ (a_hasRepos /\ Cardinality(apps) >= 2) =>
                /\ ~ok
                /\ Range(gi_err.names) = apps
           /\ (a_hasRepos /\ Cardinality(apps) = 1) =>
                \E app \in apps :
                    LET tags == DOMAIN a_repos[app]
                    IN  /\ "latest" \in tags =>
                            /\ ok /\ gi_appName = app
                            /\ gi_imageID = a_repos[app]["latest"]
                        /\ ("latest" \notin tags /\ Cardinality(tags) = 1) =>
                            /\ ok /\ gi_appName = app
                            /\ \A t \in tags : gi_imageID = a_repos[app][t]
                        /\ ("latest" \notin tags /\ Cardinality(tags) # 1) => ~ok
           /\ ok => \E t \in DOMAIN a_repos[gi_appName] :
                        gi_imageID = a_repos[gi_appName][t]

\* C10, its cases: an app with two tags, latest among them, is resolved to
\* the id of latest.
C10_Witness ==
    /\ Resolved /\ gi_err = NoError
    /\ DOMAIN a_repos = {"app2"}
    /\ DOMAIN a_repos["app2"] = {"latest", "v1"}
    /\ a_repos["app2"]["latest"] = "i2" /\ a_repos["app2"]["v1"] = "i1"
    /\ gi_appName = "app2" /\ gi_imageID = "i2"

\* the entries of the squashed tar that came from layer k
OutOf(k) == SelectSeq(sq_out, LAMBDA o : o.from = k)

\* the entries of the sequence out that are named name
Named(out, name) == SelectSeq(out, LAMBDA o : o.name = name)

\* in layer k, the links to the entry at i, and those of them that are kept
LinksTo(k, i) ==
    { j \in 1..Len(sq_rendered[k].entries) :
        /\ sq_rendered[k].entries[j].typeflag = "link"
        /\ sq_rendered[k].entries[j].linkname = sq_rendered[k].entries[i].name }
KeptLinksTo(k, i) ==
    { j \in LinksTo(k, i) : sq_rendered[k].entries[j].name \in sq_rendered[k].fileMap }

\* in layer k, the entry at i is a file that is not kept while a hard link
\* to it is
Promoted(k, i) ==
    /\ sq_rendered[k].entries[i].typeflag # "link"
    /\ sq_rendered[k].entries[i].name \notin sq_rendered[k].fileMap
    /\ KeptLinksTo(k, i) # {}

FirstKeptLink(k, i) ==
    CHOOSE j \in KeptLinksTo(k, i) : \A x \in KeptLinksTo(k, i) : j <= x

C4_CrossLayerPromotion ==
    sq_pc = "returned" =>
        \A u, lo \in 1..Len(sq_rendered) :
            \A i \in 1..Len(sq_rendered[u].entries) :
                \A j \in 1..Len(sq_rendered[lo].entries) :
                    LET L == sq_rendered[u].entries[i]
                        F == sq_rendered[lo].entries[j]
                    IN  ( /\ u < lo
                          /\ L.typeflag = "link" /\ L.linkname = F.name
                          /\ F.typeflag = "reg"
                          /\ F.name \notin EntryNames(sq_rendered[u].entries)
                          /\ L.name \notin EntryNames(sq_rendered[lo].entries)
                          /\ L.name \in sq_rendered[u].fileMap
                          /\ \A k \in 1..Len(sq_rendered) :
                                F.name \notin sq_rendered[k].fileMap )
                        => /\ \E o \in Range(sq_out) :
                                /\ o.name = L.name
                                /\ o.typeflag = "reg"
                                /\ o.data = F.data
                           /\ Named(sq_out, F.name) = <<>>

\* C5: the manifest written into the squashed ACI is the topmost layer's
\* manifest with no dependencies, no pathWhitelist, no label named layer and
\* the name cut at its last "-"; acVersion, acKind, the other labels, the
\* annotations and the app are the topmost layer's, and the manifests of the
\* lower layers contribute nothing.
C5_MergedManifest ==
    mm_pc = "returned" =>
        LET top == mm_manifests[1]
        IN  /\ mm_result.dependencies = <<>>
            /\ mm_result.pathWhitelist = <<>>
            /\ \A i \in 1..Len(mm_result.labels) : mm_result.labels[i].name # "layer"
            /\ \E n \in 1..Len(top.name) :
                  /\ top.name[n] = "-"
                  /\ \A m \in (n + 1)..Len(top.name) : top.name[m] # "-"
                  /\ mm_result.name = SubSeq(top.name, 1, n - 1)
            /\ mm_result.labels = SelectSeq(top.labels, LAMBDA l : l.name # "layer")
            /\ mm_result.acVersion = top.acVersion
            /\ mm_result.acKind = top.acKind
            /\ mm_result.annotations = top.annotations
            /\ mm_result.app = top.app

\* C5, its case: the topmost manifest has a "-" in its app name, a layer label
\* between two others, a dependency and a pathWhitelist, and a lower layer's
\* manifest follows it; the merged manifest is named after the app.
C5_Witness ==
    /\ mm_pc = "returned"
    /\ Len(mm_manifests) = 2
    /\ mm_manifests[1].name = <<"my", "-", "app", "-", "i1">>
    /\ Len(mm_manifests[1].labels) = 3
    /\ mm_manifests[1].labels[2].name = "layer"
    /\ mm_manifests[1].dependencies # <<>>
    /\ mm_manifests[1].pathWhitelist # <<>>
    /\ mm_manifests[2].pathWhitelist # <<>>
    /\ mm_result.name = <<"my", "-", "app">>
    /\ Len(mm_result.labels) = 2

\* C6: when the conversion returns an error, the output directory holds no
\* squashed temp file and no file of this run at the final path; and a file
\* of this run is at the final path only fully written and validated.
C6_NoPartialOutput ==
    LET final == getSquashedFilename(cv_appName)
        promoted == /\ HasFile(cv_outputDir, final)
                    /\ DataOf(cv_outputDir, final) # "old"
    IN  /\ cv_pc = "error" => ~HasFile(cv_outputDir, TempName) /\ ~promoted
        /\ promoted => DataOf(cv_outputDir, final) = "squashed" /\ cv_validated

\* the headers of the stdio symlinks writeACI added to the tar
IsStdioHeader(h) ==
    \E i \in 1..Len(StdioSymlinks) : h = SymlinkHeader(StdioSymlinks[i])

\* the paths of the stdio symlinks emitted for the layer
EmittedSymlinkPaths(tar) ==
    { TrimRootfs(tar[i].name) : i \in { k \in 1..Len(tar) : IsStdioHeader(tar[k]) } }

\* the absolute paths of the layer's own entries written under rootfs/
WrittenPaths(tar) ==
    { TrimRootfs(tar[i].name) :
        i \in { k \in 1..Len(tar) :
                  /\ Len(tar[k].name) > 1
                  /\ tar[k].name[1] = "rootfs"
                  /\ ~IsStdioHeader(tar[k]) } }

\* the paths the layer's whiteout markers name: the marker's last component
\* without its ".wh." prefix
WhiteoutPathsOf(fileMap) ==
    { [p EXCEPT ![Len(p)] = WhName[p[Len(p)]]] :
        p \in { q \in fileMap : IsWh(q[Len(q)]) } }

\* p is a whiteout of the layer or lies below one
Covered(fileMap, p) == \E wh \in WhiteoutPathsOf(fileMap) : IsPrefix(wh, p)

\* C11: the pathWhitelist of a layer's manifest is the lower layer's PWL
\* together with the paths the layer wrote, without the paths at or below a
\* whiteout of the layer, with the paths of the stdio symlinks emitted for
\* the layer; no path is in it twice.
C11_PwlAccumulation ==
    w_pc = "returned" =>
        /\ Range(w_manifestPwl) =
              { p \in Range(w_inherited) \cup WrittenPaths(w_tar) :
                  ~Covered(w_fileMap, p) }
              \cup EmittedSymlinkPaths(w_tar)
        /\ NoDup(w_manifestPwl)

\* C11, its case: the second layer of a chain inherits /a/b and /b from the
\* layer below, holds a whiteout of /a/b and writes /a/b's directory again;
\* /b survives, /a/b does not.
C11_Witness ==
    /\ w_pc = "returned"
    /\ w_layer = 1
    /\ In(w_inherited, <<"/", "a", "b">>)
    /\ In(w_inherited, <<"/", "b">>)
    /\ <<"/", "a", ".wh.b">> \in w_fileMap
    /\ <<"/", "a">> \in w_fileMap
    /\ In(w_manifestPwl, <<"/", "b">>)
    /\ In(w_manifestPwl, <<"/", "a">>)
    /\ ~In(w_manifestPwl, <<"/", "a", "b">>)

\* the calls of BuildACI among the calls convertRun made
BuildCalls == SelectSeq(cv_calls, LAMBDA c : c.call = "BuildACI")

\* the image list was handed to SquashLayers
HandedToSquasher ==
    cv_pc \in {"TempFile", "writeSquashedImage", "ValidateACI", "Rename",
               "Close", "returned"}

StdioPaths ==
    { <<"/", "dev", "stdin">>, <<"/", "dev", "stdout">>,
      <<"/", "dev", "stderr">>, <<"/", "dev", "fd">> }

\* C13: when the layer's payload does not open as a tar, writeACI does not
\* fail, the ACI is the rootfs directory entry, the four stdio symlinks and
\* the manifest entry, in that order, and the manifest's pathWhitelist is the
\* inherited PWL and the four stdio paths.
C13_EmptyLayer ==
    ~w_validTar =>
        /\ w_pc # "error"
        /\ w_pc = "returned" =>
              /\ w_tar =
                    << [name |-> <<"rootfs">>, typeflag |-> "dir", linkname |-> <<>>],
                       [name |-> <<"rootfs", "dev", "stdin">>, typeflag |-> "symlink",
                        linkname |-> <<"/proc/self/fd/0">>],
                       [name |-> <<"rootfs", "dev", "stdout">>, typeflag |-> "symlink",
                        linkname |-> <<"/dev/console">>],
                       [name |-> <<"rootfs", "dev", "stderr">>, typeflag |-> "symlink",
                        linkname |-> <<"/dev/console">>],
                       [name |-> <<"rootfs", "dev", "fd">>, typeflag |-> "symlink",
                        linkname |-> <<"/proc/self/fd">>],
                       [name |-> <<"manifest">>, typeflag |-> "reg", linkname |-> <<>>] >>
              /\ Range(w_manifestPwl) = Range(w_inherited) \cup StdioPaths
              /\ NoDup(w_manifestPwl)

\* C13, its case: a payload that does not open, on an inherited PWL that
\* holds /b and /dev/stdin; the ACI was written.
C13_Witness ==
    /\ ~w_validTar
    /\ w_pc = "returned"
    /\ Range(w_inherited) = { <<"/", "b">>, <<"/", "dev", "stdin">> }
    /\ Len(w_tar) = 6
    /\ Len(w_manifestPwl) = 5

\* the entry is at /dev: its name has the one non-empty component dev
AtDev(t) == SelectSeq(t.name, LAMBDA c : c \notin {"", "."}) = <<"dev">>

\* C14: an entry at /dev that is not a directory makes writeACI fail at that
\* entry, no manifest entry being written; a directory at /dev and entries
\* below /dev never raise that error.
C14_DevNotADirectory ==
    /\ (AtDev(w_t) /\ w_t.typeflag # "dir") =>
          /\ w_pc = "error"
          /\ w_err = "/dev is not a directory"
          /\ \A i \in 1..Len(w_tar) : w_tar[i].name # <<"manifest">>
          /\ w_manifestPwl = <<>>
    /\ w_err = "/dev is not a directory" => (AtDev(w_t) /\ w_t.typeflag # "dir")

\* C14, its case: the layer holds the directory dev/, the entry dev/stdin and
\* then a regular file dev; the first two were written, the third failed.
C14_Witness ==
    /\ w_pc = "error"
    /\ w_err = "/dev is not a directory"
    /\ w_t.name = <<"dev">>
    /\ w_t.typeflag = "reg"
    /\ w_walked = 3
    /\ \E i \in 1..Len(w_tar) :
          w_tar[i].name = <<"rootfs", "dev">> /\ w_tar[i].typeflag = "dir"
    /\ \E i \in 1..Len(w_tar) : w_tar[i].name = <<"rootfs", "dev", "stdin">>

\* a word between double quotes, its quotes and backslashes escaped
RECURSIVE EscapedWord(_)
EscapedWord(w) ==
    IF w = <<>> THEN <<>>
    ELSE (CASE Head(w) = "\"" -> <<"\\", "\"">>
            [] Head(w) = "\\" -> <<"\\", "\\">>
            [] OTHER -> <<Head(w)>>) \o EscapedWord(Tail(w))

\* the words of c, each quoted, with one space between two of them
RECURSIVE QuotedLine(_)
QuotedLine(c) ==
    IF c = <<>> THEN <<>>
    ELSE <<"\"">> \o EscapedWord(Head(c)) \o <<"\"">>
            \o (IF Len(c) > 1 THEN <<" ">> ELSE <<>>) \o QuotedLine(Tail(c))

\* C15: with c the entrypoint followed by the cmd, c not empty: exec is
\* /bin/sh, -c and the quoted words of c joined by spaces when c[0] is not an
\* absolute path, and c itself when it is.
C15_ExecSynthesis ==
    ex_pc = "returned" =>
        LET c == ex_entrypoint.s \o ex_cmd.s
        IN  c # <<>> =>
              IF c[1] # <<>> /\ c[1][1] = "/"
              THEN ex_exec.s = c
              ELSE ex_exec.s =
                      << <<"/", "b", "i", "n", "/", "s", "h">>, <<"-", "c">>,
                         QuotedLine(c) >>

\* C15, its case: the entrypoint is a relative word, the cmd a word with a
\* double quote; exec is /bin/sh -c "a" "\"".
C15_Witness ==
    /\ ex_pc = "returned"
    /\ ex_entrypoint.s = << <<"a">> >>
    /\ ex_cmd.s = << <<"\"">> >>
    /\ ex_exec.s[3] = <<"\"", "a", "\"", " ", "\"", "\\", "\"", "\"">>

\* GenerateManifest returned a manifest
Synthesized == gm_pc = "returned" /\ gm_err = "none"

\* C16: the synthesized manifest has an app section only if the entrypoint
\* or the cmd of the layer's config has an element, and no app section has an
\* empty exec.
C16_AppOnlyWithCommand ==
    (Synthesized /\ ~gm_manifest.App.isNil) =>
        /\ ~gm_layerData.Config.isNil
        /\ Len(gm_layerData.Config.Entrypoint.s) + Len(gm_layerData.Config.Cmd.s) > 0
        /\ gm_manifest.App.Exec.s # <<>>

\* C17: the mount points are one per volume path, their names are pairwise
\* distinct, and the list is in ascending order of the names.
C17_MountPointNames ==
    vo_pc = "returned" =>
        /\ Len(vo_mountPoints) = Cardinality(vo_dockerVolumes)
        /\ { vo_mountPoints[i].path : i \in 1..Len(vo_mountPoints) } = vo_dockerVolumes
        /\ \A i, j \in 1..Len(vo_mountPoints) :
              vo_mountPoints[i].name = vo_mountPoints[j].name => i = j
        /\ \A i, j \in 1..Len(vo_mountPoints) :
              i < j => ~StringLess(vo_mountPoints[j].name, vo_mountPoints[i].name)

\* the manifest has an annotation appc.io/docker/tag
HasTagAnnotation(m) ==
    \E i \in 1..Len(m.Annotations) :
        /\ m.Annotations[i].name = "appc.io/docker/tag"
        /\ m.Annotations[i].value = "latest"

\* C18: a layer with a parent gets a manifest with one dependency, on the
\* name the parent layer's own manifest gets, and with the annotation
\* appc.io/docker/tag = latest; a layer without a parent gets no dependency
\* and no such annotation.
C18_ParentDependency ==
    Synthesized =>
        IF gm_layerData.Parent # ""
        THEN /\ Len(gm_manifest.Dependencies) = 1
             /\ gm_manifest.Dependencies[1].imageName =
                   GenManifestOf([gm_layerData EXCEPT !.ID = gm_layerData.Parent],
                                 gm_appName, <<>>).Name
             /\ HasTagAnnotation(gm_manifest)
        ELSE /\ gm_manifest.Dependencies = <<>>
             /\ \A i \in 1..Len(gm_manifest.Annotations) :
                   gm_manifest.Annotations[i].name # "appc.io/docker/tag"

\* the entries of layer k of the rendered list
EntriesOf(k) == sq_rendered[k].entries

\* the entry of its layer an entry of the squashed tar was read from: the
\* link of its name for a hard link, the file of its bytes otherwise
IsSourceOf(o, i) ==
    IF o.typeflag = "link"
    THEN EntriesOf(o.from)[i].typeflag = "link" /\ EntriesOf(o.from)[i].name = o.name
    ELSE EntriesOf(o.from)[i].typeflag # "link" /\ EntriesOf(o.from)[i].data = o.data

SourceIndex(o) == CHOOSE i \in 1..Len(EntriesOf(o.from)) : IsSourceOf(o, i)

\* the entry without the layer it came from
HeaderAndBytes(o) ==
    [name |-> o.name, typeflag |-> o.typeflag, linkname |-> o.linkname,
     data |-> o.data]

\* C19: the squashed tar starts with the manifest entry and the rootfs
\* directory entry and holds one entry of each name; a layer entry that is in
\* its layer's FileMap and is no hard link is emitted once, unchanged; a layer
\* entry that is not in its layer's FileMap is emitted only as the target of
\* a kept hard link of its layer, under that link's name; the entries come in
\* the order of the layers and, in a layer, in the order of its archive.
C19_EmissionRule ==
    sq_pc = "returned" =>
        /\ Len(sq_out) >= 2
        /\ HeaderAndBytes(sq_out[1]) =
              [name |-> <<"manifest">>, typeflag |-> "reg", linkname |-> <<>>,
               data |-> <<"manifest">>]
        /\ HeaderAndBytes(sq_out[2]) =
              [name |-> <<"rootfs">>, typeflag |-> "dir", linkname |-> <<>>,
               data |-> <<>>]
        /\ Len(Named(sq_out, <<"manifest">>)) = 1
        /\ Len(Named(sq_out, <<"rootfs">>)) = 1
        /\ \A k \in 1..Len(sq_rendered) : \A i \in 1..Len(EntriesOf(k)) :
              LET e == EntriesOf(k)[i]
                  copies == SelectSeq(sq_out, LAMBDA o : HeaderAndBytes(o) = e)
                  bytes == SelectSeq(sq_out, LAMBDA o : o.data = e.data)
              IN  /\ (e.typeflag # "link" /\ e.name \in sq_rendered[k].fileMap) =>
                        /\ Len(copies) = 1
                        /\ copies[1].from = k
                        /\ Len(bytes) = 1
                  /\ (e.typeflag # "link" /\ e.name \notin sq_rendered[k].fileMap) =>
                        /\ Len(bytes) <= 1
                        /\ bytes # <<>> =>
                              /\ bytes[1].from = k
                              /\ \E j \in KeptLinksTo(k, i) :
                                    bytes[1].name = EntriesOf(k)[j].name
                  /\ (e.typeflag = "link" /\ e.name \notin sq_rendered[k].fileMap) =>
                        \A x \in 1..Len(sq_out) :
                            sq_out[x].from = k => sq_out[x].name # e.name
        /\ \A x \in 3..Len(sq_out) :
              /\ sq_out[x].from \in 1..Len(sq_rendered)
              /\ \E i \in 1..Len(EntriesOf(sq_out[x].from)) : IsSourceOf(sq_out[x], i)
        /\ \A x, y \in 3..Len(sq_out) :
              x < y =>
                  \/ sq_out[x].from < sq_out[y].from
                  \/ /\ sq_out[x].from = sq_out[y].from
                     /\ SourceIndex(sq_out[x]) < SourceIndex(sq_out[y])

\* C19, its case: the upper layer holds a kept file, the lower layer a kept
\* file and one that is not kept; the squashed tar is the manifest, rootfs,
\* the upper file and the lower kept file.
C19_Witness ==
    /\ sq_pc = "returned"
    /\ Len(sq_rendered) = 2
    /\ sq_rendered[1].entries = << RegEntry(1, <<"rootfs", "f">>) >>
    /\ sq_rendered[1].fileMap = { <<"rootfs", "f">> }
    /\ sq_rendered[2].entries =
          << RegEntry(2, <<"rootfs", "l1">>), RegEntry(2, <<"rootfs", "l2">>) >>
    /\ sq_rendered[2].fileMap = { <<"rootfs", "l2">> }
    /\ Len(sq_out) = 4
    /\ sq_out[3].name = <<"rootfs", "f">>
    /\ sq_out[4].name = <<"rootfs", "l2">>
    /\ sq_out[4].from = 2

\* in every layer a hard link's target, when it is an entry of the layer,
\* comes before the link
TargetsPrecede ==
    \A k \in 1..Len(sq_rendered) : \A i, j \in 1..Len(EntriesOf(k)) :
        (EntriesOf(k)[i].typeflag = "link"
            /\ EntriesOf(k)[j].name = EntriesOf(k)[i].linkname) => j < i

\* C20: when in every layer a hard link's target comes before the link, every
\* hard link of the squashed tar comes after an entry of the name it links to.
C20_TargetBeforeLink ==
    (sq_pc = "returned" /\ TargetsPrecede) =>
        \A p \in 1..Len(sq_out) :
            sq_out[p].typeflag = "link" =>
                \E q \in 1..(p - 1) : sq_out[q].name = sq_out[p].linkname

\* C21: writeACI ends for every layer tar: it returns a manifest or an error.
C21_BuildTerminates == <>(w_pc \in {"returned", "error"})

\* C22: when the images are handed to the renderer, the pathWhitelist of the
\* manifest of every image holds the paths it held when the build of its
\* layer returned, as many as then.
C22_BuiltPwlUnchanged ==
    al_pc = "rendered" =>
        \A i \in 1..Len(al_images) :
            LET now == View(al_arrays, al_images[i].pathWhitelist)
            IN /\ Len(now) = Len(al_images[i].returned)
               /\ Range(now) = Range(al_images[i].returned)

\* the env entries of the layer whose manifest is synthesized
EnvOfLayer == gm_layerData.Config.Env.s

\* k is the place of the first "=" of the entry v
IsFirstEq(v, k) == k \in 1..Len(v) /\ v[k] = "=" /\ \A j \in 1..(k - 1) : v[j] # "="

\* C23: GenerateManifest returns for every env list, and in the app it
\* returns every env entry K=V gave the variable K, whose value is what
\* follows the first "=" of the last entry of that name.
C23_EnvSplit ==
    /\ gm_pc # "panic"
    /\ (gm_pc = "returned" /\ gm_err = "none" /\ ~gm_manifest.App.isNil) =>
          \A i \in 1..Len(EnvOfLayer) : \A k \in 1..Len(EnvOfLayer[i]) :
              IsFirstEq(EnvOfLayer[i], k) =>
                  \E x \in 1..Len(gm_manifest.App.Environment) :
                      LET var == gm_manifest.App.Environment[x]
                          later == { j \in (i + 1)..Len(EnvOfLayer) :
                                        \E m \in 1..Len(EnvOfLayer[j]) :
                                            /\ IsFirstEq(EnvOfLayer[j], m)
                                            /\ SubSeq(EnvOfLayer[j], 1, m - 1) = var.name }
                      IN /\ var.name = SubSeq(EnvOfLayer[i], 1, k - 1)
                         /\ later = {} =>
                               var.value = SubSeq(EnvOfLayer[i], k + 1, Len(EnvOfLayer[i]))

=============================================================================
